---- MODULE Spec2Model ----
(***************************************************************************)
(* Baseline versioning store of Neural Watch                               *)
(* (src/backend/app/utils/versioning.py, class VersioningManager).         *)
(*                                                                         *)
(* The baseline directory is modelled as two maps: the metadata files      *)
(* "<version_id>_metadata.json" (variable meta) and the copied data files  *)
(* "<version_id><suffix>" (variable data).  A metadata file holds <<>>     *)
(* when its content is not parseable JSON (empty or partial file) and      *)
(* <<info>> when json.load returns the dictionary info.                    *)
(*                                                                         *)
(* create_baseline_version is not atomic in the source: it scans the       *)
(* directory, copies the data file, opens (truncates) the metadata file    *)
(* and dumps the JSON.  Each of these file-system operations is one step   *)
(* of a caller (frame[p].pc), so that callers can interleave.              *)
(***************************************************************************)
EXTENDS Integers, Sequences, FiniteSets, TLC

\* ------------------------------------------------------------------ bounds
MaxTime == 1           \* wall-clock readings 0..MaxTime
TicksPerDay == 1       \* clock readings per calendar day (date_str changes)
MaxCalls == 3          \* calls of the caller in a run (SeqSpec)
MaxFaultCalls == 3     \* calls of the caller in a run with I/O faults (FaultSpec)
MaxConcCalls == 2      \* calls of the caller beside the script's create (Spec)
MaxCmpCalls == 3       \* calls of the caller in a run with comparisons (CompareSpec)
MaxReportTime == 3     \* clock readings 0..MaxReportTime of the quality routes
TicksPerSecond == 2    \* clock readings within one second
MaxReportCalls == 3    \* requests to the quality routes in a run (ReportSpec)
MaxRows == 3           \* rows of a data frame given to the analyzers (AnalyzerSpec)
MaxValues == 5         \* rows of a numeric frame given to remove_outliers and clip_outliers
MaxForeign == 2         \* metadata files in the directory that create did not write
MaxIdLen == 3           \* characters of the version id of such a file
MaxForeignCalls == 1    \* creates in a run beside such files (ForeignSpec)
MaxValidateRows == 11    \* rows of a frame given to validate_dataframe
MaxCrashCalls == 3      \* creates of the caller in a run with crashes (CrashSpec)
MaxUploadCalls == 2     \* upload requests in a run (UploadSpec)

\* Callers of the VersioningManager: a caller that issues create and delete
\* calls one after the other, and one run of scripts/init_baseline.py, which
\* makes a single create_baseline_version call and exits.
Caller == "caller"
Script == "init_baseline"
Procs == {Caller, Script}
Times == 0..MaxTime

VARIABLES
    meta,           \* metadata files of the baseline directory
    data,           \* data files of the baseline directory
    frame,          \* per caller: position and locals of its running call
    ret,            \* value returned by the step just taken (or no return)
    last_assigned,  \* history: version number of the last successful create
    deleted,        \* history: version ids whose delete reported success
    calls,          \* history: number of calls the caller has started
    passed,         \* history: per readable record, the metadata its create was passed
    reports,        \* quality report files of the reports directory
    scorer,         \* the QualityScorer object (None before construction)
    detector        \* the OutlierDetector object (None before construction)

vars == <<meta, data, frame, ret, last_assigned, deleted, calls, passed,
          reports, scorer, detector>>

\* The baseline store with its history, and the state of the quality checks.
versioning == <<meta, data, frame, last_assigned, deleted, passed>>
quality == <<reports, scorer, detector>>

\* ------------------------------------------------------- python values
\* A column label is a tagged Python value: a str, an int (pandas converts
\* numeric JSON keys to integer labels) or a tuple (MultiIndex label).
StrLabel(s) == <<"str", s>>
IntLabel(n) == <<"int", n>>
TupleLabel(s) == <<"tuple", s>>

\* Optional values: <<>> is None, <<x>> is the value x.
None == <<>>
Some(x) == <<x>>

\* dict.get(key, default) on a dictionary modelled as a function
Get(d, key, default) == IF key \in DOMAIN d THEN d[key] ELSE default

\* ------------------------------------------------------- json round trip
\* json.dump accepts dictionary keys that are str, int, float, bool or None
\* and raises TypeError on any other key (for example a tuple).
JsonKeyOk(k) == k[1] \in {"str", "int"}

\* json.dump writes an int key as the string of its digits.
JsonKey(k) == IF k[1] = "int" THEN StrLabel(ToString(k[2])) ELSE k

\* List elements keep their type, except that a tuple is written as a list.
JsonElem(x) == IF x[1] = "tuple" THEN <<"list", x[2]>> ELSE x

JsonSerializable(md) == \A k \in DOMAIN md.dtypes : JsonKeyOk(k)

\* json.load(json.dump(md)) for a metadata dictionary
JsonRoundTrip(md) ==
    [md EXCEPT
        !.column_names = [i \in DOMAIN md.column_names |-> JsonElem(md.column_names[i])],
        !.dtypes = [k \in {JsonKey(c) : c \in DOMAIN md.dtypes} |->
                        md.dtypes[CHOOSE c \in DOMAIN md.dtypes : JsonKey(c) = k]]]

\* ------------------------------------------------------- inputs
Metadata(rows, names, dtype) ==
    [rows |-> rows, columns |-> Len(names), column_names |-> names,
     dtypes |-> [c \in {names[i] : i \in DOMAIN names} |-> dtype]]

MdStr == Metadata(10, <<StrLabel("a"), StrLabel("b"), StrLabel("c")>>, "int64")
MdInt == Metadata(20, <<IntLabel(1), IntLabel(2)>>, "int64")
MdTuple == Metadata(10, <<StrLabel("a"), TupleLabel("x")>>, "object")

\* Metadata of later uploads, compared with a baseline: a column replaced, a
\* column of another dtype, and more rows and columns.
MdAbd == Metadata(10, <<StrLabel("a"), StrLabel("b"), StrLabel("d")>>, "int64")
MdRetyped == [MdStr EXCEPT !.dtypes[StrLabel("b")] = "float64"]
MdGrown == Metadata(12, <<StrLabel("a"), StrLabel("b"), StrLabel("c"), StrLabel("d")>>, "int64")

Currents == {MdStr, MdInt, MdTuple, MdAbd, MdRetyped, MdGrown}

\* The callers pass a source file together with the metadata that
\* FileHandler.compute_metadata computed from it.
Uploads == {[file |-> [name |-> "a.csv", suffix |-> ".csv"], metadata |-> MdStr],
            [file |-> [name |-> "b.json", suffix |-> ".json"], metadata |-> MdInt],
            [file |-> [name |-> "c.json", suffix |-> ".json"], metadata |-> MdTuple]}

\* ------------------------------------------------------- version ids
\* datetime.now() is the local wall clock, which is not a state of the
\* program: it advances, and it can be set back (clock adjustment, end of
\* daylight saving time), so a read returns any reading t in Times.
\* date_str = datetime.now().strftime("%Y%m%d") for the reading t
DateStr(t) == t \div TicksPerDay

\* f"{BASELINE_VERSION_PREFIX}{version_number}_{date_str}" with the prefix
\* "baseline_v", as the sequence of its '_'-separated parts.
FormatVersionId(n, d) == <<"baseline", <<"v", n>>, d>>

\* int(version_id.split('_')[1].replace('v', ''))
ParseVersionNumber(version_id) == version_id[2][2]

\* ------------------------------------------------------- helpers
Max(S) == CHOOSE x \in S : \A y \in S : y <= x

Range(s) == {s[i] : i \in DOMAIN s}

\* Insert x into a sequence sorted descending by key, after the elements whose
\* key is greater than or equal (the sort is stable).
InsertDesc(sorted, x, key) ==
    LET smaller == {i \in DOMAIN sorted : sorted[i][key] < x[key]}
        pos == IF smaller = {} THEN Len(sorted) + 1
               ELSE CHOOSE i \in smaller : \A j \in smaller : i <= j
    IN SubSeq(sorted, 1, pos - 1) \o <<x>> \o SubSeq(sorted, pos, Len(sorted))

RECURSIVE SortDescFrom(_, _, _, _)
SortDescFrom(seq, key, i, acc) ==
    IF i > Len(seq) THEN acc
    ELSE SortDescFrom(seq, key, i + 1, InsertDesc(acc, seq[i], key))

\* sorted(seq, key=lambda x: x[key], reverse=True): stable, descending
SortDesc(seq, key) == SortDescFrom(seq, key, 1, <<>>)

\* One of the orders of S.
RECURSIVE AnyOrder(_)
AnyOrder(S) ==
    IF S = {} THEN <<>>
    ELSE LET x == CHOOSE y \in S : TRUE IN <<x>> \o AnyOrder(S \ {x})

\* All orders in which a directory scan can enumerate the files in S.
Orderings(S) ==
    LET base == AnyOrder(S)
    IN {[i \in DOMAIN base |-> base[pi[i]]] : pi \in Permutations(DOMAIN base)}

\* ------------------------------------------------------- queries
\* The orders in which self.baseline_path.glob("*_metadata.json") can yield
\* the metadata files of the directory m.
GlobOrders(m) == Orderings(DOMAIN m)

\* VersioningManager.list_baseline_versions, for the glob order glob:
\* files that do not parse are skipped, the rest is sorted by created_at,
\* newest first.
list_baseline_versions(m, glob) ==
    LET readable == SelectSeq(glob, LAMBDA id : m[id] # None)
        baselines == [i \in DOMAIN readable |-> m[readable[i]][1]]
    IN SortDesc(baselines, "created_at")

\* Variant of get_next_version_number that counts the records instead of
\* taking the largest number.
get_next_version_number_count(m, glob) ==
    Len(list_baseline_versions(m, glob)) + 1

\* Variant of get_next_version_number that adds one to the number of the
\* first listed record (the newest by created_at).
get_next_version_number_newest(m, glob) ==
    LET existing_versions == list_baseline_versions(m, glob)
    IN IF existing_versions = <<>> THEN 1
       ELSE ParseVersionNumber(existing_versions[1].version_id) + 1

\* VersioningManager.get_next_version_number
get_next_version_number(m, glob) ==
    LET existing_versions == list_baseline_versions(m, glob)
        version_numbers == {ParseVersionNumber(existing_versions[i].version_id) :
                                i \in DOMAIN existing_versions}
    IN IF existing_versions = <<>> THEN 1
       ELSE (IF version_numbers = {} THEN 0 ELSE Max(version_numbers)) + 1

\* Variant of get_latest_baseline that returns the first listed record
\* (newest created_at) without sorting by version number.
get_latest_baseline_newest(m, glob) ==
    LET versions == list_baseline_versions(m, glob)
    IN IF versions = <<>> THEN None ELSE Some(versions[1])

\* VersioningManager.get_latest_baseline, for the glob order glob
get_latest_baseline(m, glob) ==
    LET versions == list_baseline_versions(m, glob)
    IN IF versions = <<>> THEN None
       ELSE Some(SortDesc(versions, "version_number")[1])

\* VersioningManager.get_baseline_by_version
get_baseline_by_version(m, version_id) ==
    IF version_id \notin DOMAIN m THEN None
    ELSE m[version_id]    \* <<>> when json.load raises, else <<baseline_info>>

\* ------------------------------------------------------- state
IdleFrame == [pc |-> "idle"]

NoReturn == [op |-> "none"]

Init ==
    /\ meta = <<>>
    /\ data = <<>>
    /\ frame = [p \in Procs |-> IdleFrame]
    /\ ret = NoReturn
    /\ last_assigned = 0
    /\ deleted = {}
    /\ calls = 0
    /\ passed = <<>>
    /\ reports = <<>>
    /\ scorer = <<>>
    /\ detector = <<>>

\* Write (create or replace) the file f with content c in the directory dir.
WriteFile(dir, f, c) == [g \in DOMAIN dir \cup {f} |-> IF g = f THEN c ELSE dir[g]]

\* Path.unlink on the file f of the directory dir.
Unlink(dir, f) == [g \in DOMAIN dir \ {f} |-> dir[g]]

\* The (False, error_msg, {}) return of the except branch of
\* create_baseline_version.
CreateFailed == [op |-> "create", ok |-> FALSE]

\* The frame of p after its call returned.
Returned(p) == IF p = Script THEN [pc |-> "exited"] ELSE IdleFrame

\* ------------------------------------------------------- create
\* Variant of CreateScan that numbers past the versions other callers have
\* been assigned and not yet written (a reservation).
CreateScanReserving(p, source_file_path, metadata, max_calls) ==
    /\ frame[p].pc = "idle"
    /\ p = Caller => calls < max_calls
    /\ calls' = IF p = Caller THEN calls + 1 ELSE calls
    /\ LET reserved == {frame[q].version_number :
                            q \in {r \in Procs : frame[r].pc \in {"numbered", "copied", "opened", "unlinked"}}}
           scanned == get_next_version_number(meta, AnyOrder(DOMAIN meta))
       IN frame' = [frame EXCEPT ![p] =
            [pc |-> "numbered",
             source_file_path |-> source_file_path,
             metadata |-> metadata,
             version_number |-> IF reserved = {} THEN scanned
                                ELSE Max(reserved \cup {scanned - 1}) + 1]]
    /\ ret' = NoReturn
    /\ UNCHANGED <<meta, data, last_assigned, deleted, passed>>

\* create_baseline_version, line 76: version_number = get_next_version_number().
\* The number does not depend on the order in which the directory is scanned
\* (C8_NextVersionNumberIsMaxPlusOne is stated for every order), so the step
\* scans in one order.
CreateScan(p, source_file_path, metadata, max_calls) ==
    /\ frame[p].pc = "idle"
    /\ p = Caller => calls < max_calls
    /\ calls' = IF p = Caller THEN calls + 1 ELSE calls
    /\ frame' = [frame EXCEPT ![p] =
            [pc |-> "numbered",
             source_file_path |-> source_file_path,
             metadata |-> metadata,
             version_number |-> get_next_version_number(meta, AnyOrder(DOMAIN meta))]]
    /\ ret' = NoReturn
    /\ UNCHANGED <<meta, data, last_assigned, deleted, passed>>

\* Variant of CreateCopy that goes on without having copied the source file.
CreateCopyDeferred(p, today, copied) ==
    /\ frame[p].pc = "numbered"
    /\ LET version_id == FormatVersionId(frame[p].version_number, today)
           baseline_filename == <<version_id, frame[p].source_file_path.suffix>>
       IN   IF copied
            THEN /\ data' = data
                 /\ frame' = [frame EXCEPT ![p] =
                        [pc |-> "copied",
                         source_file_path |-> frame[p].source_file_path,
                         metadata |-> frame[p].metadata,
                         version_number |-> frame[p].version_number,
                         version_id |-> version_id,
                         baseline_filename |-> baseline_filename]]
                 /\ ret' = NoReturn
            ELSE /\ data' = data
                 /\ frame' = [frame EXCEPT ![p] = Returned(p)]
                 /\ ret' = CreateFailed
    /\ UNCHANGED <<meta, last_assigned, deleted, calls, passed>>

\* create_baseline_version, lines 77-86: the version id is built from the
\* number and today's date, and the source file is copied under that name.
\* A failing copy takes the except branch.
CreateCopy(p, today, copied) ==
    /\ frame[p].pc = "numbered"
    /\ LET version_id == FormatVersionId(frame[p].version_number, today)
           baseline_filename == <<version_id, frame[p].source_file_path.suffix>>
       IN   IF copied
            THEN /\ data' = WriteFile(data, baseline_filename, frame[p].source_file_path.name)
                 /\ frame' = [frame EXCEPT ![p] =
                        [pc |-> "copied",
                         source_file_path |-> frame[p].source_file_path,
                         metadata |-> frame[p].metadata,
                         version_number |-> frame[p].version_number,
                         version_id |-> version_id,
                         baseline_filename |-> baseline_filename]]
                 /\ ret' = NoReturn
            ELSE /\ data' = data
                 /\ frame' = [frame EXCEPT ![p] = Returned(p)]
                 /\ ret' = CreateFailed
    /\ UNCHANGED <<meta, last_assigned, deleted, calls, passed>>

\* The baseline_info dictionary of lines 90-99 (description not given).
BaselineInfo(f, created_at) ==
    [version_id |-> f.version_id,
     version_number |-> f.version_number,
     created_at |-> created_at,
     original_filename |-> f.source_file_path.name,
     baseline_filename |-> f.baseline_filename,
     baseline_path |-> f.baseline_filename,
     description |-> <<"Baseline version", f.version_number>>,
     source_metadata |-> f.metadata]

\* Variant of CreateOpen that writes a record (without the source metadata)
\* as soon as the metadata file is open.
CreateOpenWriting(p, now, opened) ==
    /\ frame[p].pc = "copied"
    /\   IF opened
         THEN /\ meta' = WriteFile(meta, frame[p].version_id,
                                   Some([BaselineInfo(frame[p], now) EXCEPT
                                            !.source_metadata = <<>>]))
              /\ frame' = [frame EXCEPT ![p] =
                     [pc |-> "opened",
                      version_number |-> frame[p].version_number,
                      version_id |-> frame[p].version_id,
                      baseline_info |-> BaselineInfo(frame[p], now)]]
              /\ ret' = NoReturn
              /\ passed' = Unlink(passed, frame[p].version_id)
         ELSE /\ meta' = meta
              /\ frame' = [frame EXCEPT ![p] = Returned(p)]
              /\ ret' = CreateFailed
              /\ passed' = passed
    /\ UNCHANGED <<data, last_assigned, deleted, calls>>

\* create_baseline_version, lines 90-105: baseline_info is built with the
\* current time and the metadata file is opened for writing, which creates
\* it empty or truncates it.  A failing open takes the except branch.
CreateOpen(p, now, opened) ==
    /\ frame[p].pc = "copied"
    /\   IF opened
         THEN /\ meta' = WriteFile(meta, frame[p].version_id, None)
              /\ frame' = [frame EXCEPT ![p] =
                     [pc |-> "opened",
                      version_number |-> frame[p].version_number,
                      version_id |-> frame[p].version_id,
                      baseline_info |-> BaselineInfo(frame[p], now)]]
              /\ ret' = NoReturn
              /\ passed' = Unlink(passed, frame[p].version_id)
         ELSE /\ meta' = meta
              /\ frame' = [frame EXCEPT ![p] = Returned(p)]
              /\ ret' = CreateFailed
              /\ passed' = passed
    /\ UNCHANGED <<data, last_assigned, deleted, calls>>

\* What json.load returns for the file json.dump(baseline_info) wrote.
StoredInfo(baseline_info) ==
    [baseline_info EXCEPT !.source_metadata = JsonRoundTrip(baseline_info.source_metadata)]

\* Variant of CreateDump that leaves a record written by another create
\* since the file was opened in place.
CreateDumpKeeping(p) ==
    /\ frame[p].pc \in {"opened", "unlinked"}
    /\ LET baseline_info == frame[p].baseline_info
           linked == frame[p].pc = "opened"
           written == linked /\ meta[frame[p].version_id] # None
       IN IF JsonSerializable(baseline_info.source_metadata)
          THEN /\ meta' = IF written \/ ~linked THEN meta
                          ELSE WriteFile(meta, frame[p].version_id,
                                         Some(StoredInfo(baseline_info)))
               /\ ret' = [op |-> "create", ok |-> TRUE,
                          baseline_info |-> baseline_info]
               /\ last_assigned' = baseline_info.version_number
               /\ passed' = IF written \/ ~linked THEN passed
                            ELSE WriteFile(passed, frame[p].version_id,
                                           baseline_info.source_metadata)
          ELSE /\ meta' = IF linked THEN WriteFile(meta, frame[p].version_id, None)
                          ELSE meta
               /\ ret' = CreateFailed
               /\ last_assigned' = last_assigned
               /\ passed' = IF linked THEN Unlink(passed, frame[p].version_id) ELSE passed
    /\ frame' = [frame EXCEPT ![p] = Returned(p)]
    /\ UNCHANGED <<data, deleted, calls>>

\* create_baseline_version, lines 106-116: json.dump writes the record and
\* the call returns (True, message, baseline_info); when the metadata is not
\* serializable json.dump raises, the file is left without valid content and
\* the call returns (False, error_msg, {}).
\* The write starts at offset 0 of the file as it is now.  When another
\* create has written the same file since this one opened (truncated) it,
\* the file holds that record: a record at least as long replaces it
\* (intact), a shorter one leaves its tail behind and the file does not
\* parse.  The lengths are not modelled, so both outcomes are possible.
\* When the file was unlinked since it was opened (pc "unlinked"), the
\* write goes to the unlinked file and the directory does not change.
CreateDump(p) ==
    /\ frame[p].pc \in {"opened", "unlinked"}
    /\ LET baseline_info == frame[p].baseline_info
           linked == frame[p].pc = "opened"
           written == linked /\ meta[frame[p].version_id] # None
       IN IF JsonSerializable(baseline_info.source_metadata)
          THEN \E intact \in IF written THEN BOOLEAN ELSE {TRUE} :
               /\ meta' = IF ~linked THEN meta
                          ELSE WriteFile(meta, frame[p].version_id,
                                         IF intact THEN Some(StoredInfo(baseline_info))
                                         ELSE None)
               /\ ret' = [op |-> "create", ok |-> TRUE,
                          baseline_info |-> baseline_info]
               /\ last_assigned' = baseline_info.version_number
               /\ passed' = IF ~linked THEN passed
                            ELSE IF intact
                            THEN WriteFile(passed, frame[p].version_id,
                                           baseline_info.source_metadata)
                            ELSE Unlink(passed, frame[p].version_id)
          ELSE /\ meta' = IF linked THEN WriteFile(meta, frame[p].version_id, None)
                          ELSE meta
               /\ ret' = CreateFailed
               /\ last_assigned' = last_assigned
               /\ passed' = IF linked THEN Unlink(passed, frame[p].version_id) ELSE passed
    /\ frame' = [frame EXCEPT ![p] = Returned(p)]
    /\ UNCHANGED <<data, deleted, calls>>

\* ------------------------------------------------------- delete
\* Variant of NotFound that treats a missing record as already deleted.
NotFoundAsSuccess(version_id) == [op |-> "delete", ok |-> TRUE, version_id |-> version_id]

\* Variant of UnlinkMetadata that leaves the metadata file in place.
UnlinkMetadataSkipped(m, version_id) == m

\* delete_baseline_version, lines 246-249: the (False, "... not found")
\* return when get_baseline_by_version finds no readable record.
NotFound(version_id) == [op |-> "delete", ok |-> FALSE, version_id |-> version_id]

\* delete_baseline_version, lines 258-262: the metadata file is unlinked.
UnlinkMetadata(m, version_id) == Unlink(m, version_id)

\* Path.unlink on a metadata file that a create holds open for writing: the
\* descriptor keeps the unlinked file, and what the create writes does not
\* reach the directory (POSIX).
StillOpen(frames, version_id) ==
    [q \in DOMAIN frames |->
        IF frames[q].pc = "opened" /\ frames[q].version_id = version_id
        THEN [frames[q] EXCEPT !.pc = "unlinked"]
        ELSE frames[q]]

\* VersioningManager.delete_baseline_version.  unlinked says how far the two
\* unlink calls get before one raises: "none" (the data file's unlink
\* raises), "data" (the metadata file's unlink raises) or "both".
delete_baseline_version(p, version_id, unlinked, max_calls) ==
    /\ frame[p].pc = "idle"
    /\ calls < max_calls
    /\ calls' = calls + 1
    /\ LET baseline_info == get_baseline_by_version(meta, version_id)
       IN IF baseline_info = None
          THEN /\ unlinked = "both"
               /\ ret' = NotFound(version_id)
               /\ UNCHANGED <<meta, data, frame, deleted, passed>>
          ELSE LET baseline_path == baseline_info[1].baseline_path
                   data_exists == baseline_path \in DOMAIN data
               IN /\ unlinked = "none" => data_exists
                  /\ data' = IF data_exists /\ unlinked # "none"
                             THEN Unlink(data, baseline_path) ELSE data
                  /\ meta' = IF unlinked = "both" THEN UnlinkMetadata(meta, version_id) ELSE meta
                  /\ ret' = [op |-> "delete", ok |-> (unlinked = "both"),
                             version_id |-> version_id]
                  /\ deleted' = IF unlinked = "both" THEN deleted \cup {version_id}
                                ELSE deleted
                  /\ passed' = IF unlinked = "both" THEN Unlink(passed, version_id)
                               ELSE passed
                  /\ frame' = IF unlinked = "both"
                              THEN StillOpen(frame, version_id) ELSE frame
    /\ UNCHANGED last_assigned

\* ------------------------------------------------------- compare
\* dict.get(key) on a dictionary of strings: None when the key is absent.
GetOpt(d, key) == IF key \in DOMAIN d THEN Some(d[key]) ELSE None

\* compare_with_baseline, lines 307-360: the list comparison["differences"].
\* list(missing_cols), list(extra_cols) and dtype_changes are built by
\* iterating over Python sets, so their order is not determined: they are
\* modelled as sets.  change_percentage of the rows entry is left out.
Differences(current_metadata, baseline_metadata) ==
    LET current_rows == Get(current_metadata, "rows", 0)
        baseline_rows == Get(baseline_metadata, "rows", 0)
        rows == IF current_rows # baseline_rows
                THEN <<[field |-> "rows", baseline |-> baseline_rows,
                        current |-> current_rows,
                        change |-> current_rows - baseline_rows]>>
                ELSE <<>>
        current_cols == Get(current_metadata, "columns", 0)
        baseline_cols == Get(baseline_metadata, "columns", 0)
        columns == IF current_cols # baseline_cols
                   THEN <<[field |-> "columns", baseline |-> baseline_cols,
                           current |-> current_cols,
                           change |-> current_cols - baseline_cols]>>
                   ELSE <<>>
        current_col_names == Range(Get(current_metadata, "column_names", <<>>))
        baseline_col_names == Range(Get(baseline_metadata, "column_names", <<>>))
        missing_cols == baseline_col_names \ current_col_names
        extra_cols == current_col_names \ baseline_col_names
        column_schema == IF missing_cols # {} \/ extra_cols # {}
                         THEN <<[field |-> "column_schema",
                                 missing_columns |-> missing_cols,
                                 extra_columns |-> extra_cols]>>
                         ELSE <<>>
        current_dtypes == Get(current_metadata, "dtypes", <<>>)
        baseline_dtypes == Get(baseline_metadata, "dtypes", <<>>)
        dtype_changes ==
            {[column |-> col,
              baseline_dtype |-> GetOpt(baseline_dtypes, col),
              current_dtype |-> GetOpt(current_dtypes, col)] :
                col \in {c \in current_col_names \cap baseline_col_names :
                            GetOpt(current_dtypes, c) # GetOpt(baseline_dtypes, c)}}
        data_types == IF dtype_changes # {}
                      THEN <<[field |-> "data_types", changes |-> dtype_changes]>>
                      ELSE <<>>
    IN rows \o columns \o column_schema \o data_types

\* The report of lines 293-297 when no baseline is found.
NoBaseline == [has_baseline |-> FALSE]

\* VersioningManager.compare_with_baseline, for the glob order glob.
\* baseline_version_id is None or Some(version_id); comparison_timestamp is
\* left out of the report.
compare_with_baseline(m, glob, current_metadata, baseline_version_id) ==
    LET baseline_info == IF baseline_version_id # None
                         THEN get_baseline_by_version(m, baseline_version_id[1])
                         ELSE get_latest_baseline(m, glob)
    IN IF baseline_info = None THEN NoBaseline
       ELSE [has_baseline |-> TRUE,
             baseline_version |-> baseline_info[1].version_id,
             differences |-> Differences(current_metadata,
                                         baseline_info[1].source_metadata)]

\* A call of compare_with_baseline by the caller.
Compare(p, current_metadata, baseline_version_id, max_calls) ==
    /\ frame[p].pc = "idle"
    /\ calls < max_calls
    /\ calls' = calls + 1
    /\ \E glob \in GlobOrders(meta) :
         ret' = [op |-> "compare",
                 current_metadata |-> current_metadata,
                 baseline_version_id |-> baseline_version_id,
                 comparison |-> compare_with_baseline(meta, glob, current_metadata,
                                                      baseline_version_id)]
    /\ UNCHANGED <<meta, data, frame, last_assigned, deleted, passed>>

\* ------------------------------------------------------- specifications
\* Version ids a caller asks to delete: those that have a metadata file, or
\* had one that was deleted, or belong to a data file of the directory.
DeleteArgs == DOMAIN meta \cup deleted \cup {f[1] : f \in DOMAIN data}

\* Outcomes of a file-system call: it succeeds, or (with faults) it raises.
Outcomes(faults) == IF faults THEN BOOLEAN ELSE {TRUE}

UnlinkOutcomes(faults) == IF faults THEN {"none", "data", "both"} ELSE {"both"}

\* The uploads p passes: the script is run on one given file.
UploadsOf(p) == IF p = Script THEN {u \in Uploads : u.file.name = "b.json"} ELSE Uploads

Create(p, faults, max_calls) ==
    \/ \E u \in UploadsOf(p) : CreateScan(p, u.file, u.metadata, max_calls)
    \/ \E t \in Times, copied \in Outcomes(faults) : CreateCopy(p, DateStr(t), copied)
    \/ \E t \in Times, opened \in Outcomes(faults) : CreateOpen(p, t, opened)
    \/ CreateDump(p)

Delete(p, faults, max_calls) ==
    \E v \in DeleteArgs, u \in UnlinkOutcomes(faults) :
        delete_baseline_version(p, v, u, max_calls)

\* One caller at a time: every call runs to its return before the next starts.
SeqNext ==
    /\ \/ Create(Caller, FALSE, MaxCalls)
       \/ Delete(Caller, FALSE, MaxCalls)
    /\ UNCHANGED quality

SeqSpec == Init /\ [][SeqNext]_vars

\* One caller, whose file-system calls can raise.
FaultNext ==
    /\ \/ Create(Caller, TRUE, MaxFaultCalls)
       \/ Delete(Caller, TRUE, MaxFaultCalls)
    /\ UNCHANGED quality

FaultSpec == Init /\ [][FaultNext]_vars

\* A version id that no create assigns (version numbers start at 1).
UnknownVersionId == FormatVersionId(0, 0)

\* The baseline_version_id arguments of compare_with_baseline: None (the
\* latest baseline), the id of a metadata file, or an id that has none.
CompareArgs == {None} \cup {Some(v) : v \in DOMAIN meta \cup {UnknownVersionId}}

\* One caller that creates and deletes baselines and compares the metadata
\* of later uploads with them.
CompareNext ==
    /\ \/ Create(Caller, FALSE, MaxCmpCalls)
       \/ Delete(Caller, FALSE, MaxCmpCalls)
       \/ \E current \in Currents, b \in CompareArgs :
               Compare(Caller, current, b, MaxCmpCalls)
    /\ UNCHANGED quality

CompareSpec == Init /\ [][CompareNext]_vars

\* The script's create interleaves with the caller's calls at the file-system
\* operations.
Next ==
    /\ \/ Create(Caller, FALSE, MaxConcCalls)
       \/ Delete(Caller, FALSE, MaxConcCalls)
       \/ Create(Script, FALSE, MaxConcCalls)
    /\ UNCHANGED quality

Spec == Init /\ [][Next]_vars

\* ------------------------------------------------------- store views
\* The records that list_baseline_versions returns (in some order).
ReadableInfos(m) == {m[id][1] : id \in {i \in DOMAIN m : m[i] # None}}

VersionNumbers(m) == {r.version_number : r \in ReadableInfos(m)}

CreateSucceeded == ret.op = "create" /\ ret.ok

DeleteReturned == ret.op = "delete"

\* ------------------------------------------------------- C1
\* C1 (as claimed): the version numbers assigned by successive successful
\* create_baseline_version calls are strictly increasing, so a number that
\* was assigned once is never assigned again, also not after the baseline
\* with the highest number has been deleted.
C1_NumbersNeverReassigned ==
    [][(ret'.op = "create" /\ ret'.ok)
         => ret'.baseline_info.version_number > last_assigned]_vars

\* C1 (amended): the number assigned by a successful create is strictly
\* greater than the version number of every other baseline retrievable when
\* the create returns (calls made one after the other).
C1_NumberAboveStoredBaselines ==
    CreateSucceeded =>
        \A r \in ReadableInfos(meta) :
            r.version_id # ret.baseline_info.version_id
                => ret.baseline_info.version_number > r.version_number

\* A create has just been assigned the number of a deleted baseline, no
\* stored baseline having a higher number.
C1_Witness ==
    /\ CreateSucceeded
    /\ ret.baseline_info.version_number \in {ParseVersionNumber(v) : v \in deleted}
    /\ \A r \in ReadableInfos(meta) :
         r.version_number <= ret.baseline_info.version_number

\* ------------------------------------------------------- C2
\* C2 (as claimed): once delete_baseline_version has succeeded for v,
\* get_baseline_by_version(v) returns none in every later state.
C2_DeletedIsTerminal ==
    \A v \in deleted : get_baseline_by_version(meta, v) = None

\* C2 (amended): when delete_baseline_version(v) returns success,
\* get_baseline_by_version(v) returns none, and v stays unretrievable until a
\* later create that is assigned the id v again returns success.
C2_DeletedUntilRecreated ==
    [][/\ (ret'.op = "delete" /\ ret'.ok)
            => get_baseline_by_version(meta', ret'.version_id) = None
       /\ \A v \in deleted :
            (get_baseline_by_version(meta, v) = None
                /\ get_baseline_by_version(meta', v) # None)
            => (ret'.op = "create" /\ ret'.ok /\ ret'.baseline_info.version_id = v)]_vars

\* A create has just returned the id of a baseline that was deleted before.
C2_Witness ==
    /\ CreateSucceeded
    /\ ret.baseline_info.version_id \in deleted
    /\ get_baseline_by_version(meta, ret.baseline_info.version_id) # None

\* ------------------------------------------------------- C3
\* C3 (as claimed): delete_baseline_version(v) reports success whenever v is
\* not retrievable after the call, also when its metadata file was already
\* absent or unreadable.
C3_SuccessWheneverGone ==
    (DeleteReturned /\ get_baseline_by_version(meta, ret.version_id) = None) => ret.ok

\* C3 (amended): delete_baseline_version(v) reports success exactly when v's
\* record was retrievable at the call and is not retrievable after it; then
\* the data file named by the record is gone too, and a data file that was
\* already missing is not an error.  When the record is not retrievable at
\* the call (already deleted, or missing or unreadable while the data file
\* exists) it reports failure and removes nothing.
C3_SuccessIffRecordRemoved ==
    [][ret'.op = "delete" =>
        LET v == ret'.version_id
            before == get_baseline_by_version(meta, v)
            after == get_baseline_by_version(meta', v)
        IN /\ ret'.ok <=> (before # None /\ after = None)
           /\ ret'.ok => before[1].baseline_path \notin DOMAIN data'
           /\ before = None => (meta' = meta /\ data' = data)]_vars

\* A delete of an id that was deleted before has just reported failure.
C3_Witness ==
    /\ DeleteReturned
    /\ ~ret.ok
    /\ ret.version_id \in deleted
    /\ get_baseline_by_version(meta, ret.version_id) = None

\* ------------------------------------------------------- C4
InFlight(q) == frame[q].pc \in {"numbered", "copied", "opened", "unlinked"}

\* C4: a create that scans the store while another create is between its
\* own scan and the write of its metadata record, the records being the same
\* as at that scan, is assigned the same version number as the other.
C4_InterleavedScansSameNumber ==
    [][\A p, q \in Procs :
        (/\ p # q
         /\ frame[p].pc = "idle"
         /\ frame'[p].pc = "numbered"
         /\ InFlight(q)
         /\ frame[q].version_number = get_next_version_number(meta, AnyOrder(DOMAIN meta)))
        => frame'[p].version_number = frame[q].version_number]_vars

\* Two retrievable baselines hold the same version number.
C4_Witness ==
    \E r1, r2 \in ReadableInfos(meta) :
        r1.version_id # r2.version_id /\ r1.version_number = r2.version_number

\* ------------------------------------------------------- C5
\* C5 (as claimed): from the success of its create until its delete, the
\* record of a baseline is returned unchanged by get_baseline_by_version;
\* no later or concurrent create changes it.
C5_BaselineImmutable ==
    [][\A v \in DOMAIN meta :
        meta[v] # None =>
            \/ get_baseline_by_version(meta', v) = meta[v]
            \/ (ret'.op = "delete" /\ ret'.ok /\ ret'.version_id = v)]_vars

\* ------------------------------------------------------- C6
\* C6 (as claimed): no two retrievable baselines share the maximum
\* version number, and get_latest_baseline returns the same baseline for
\* every listing order.
C6_ExactlyOneLatest ==
    /\ \A r1, r2 \in ReadableInfos(meta) :
        (r1.version_number = Max(VersionNumbers(meta))
            /\ r2.version_number = Max(VersionNumbers(meta))) => r1 = r2
    /\ \A g1, g2 \in GlobOrders(meta) :
        get_latest_baseline(meta, g1) = get_latest_baseline(meta, g2)

\* ------------------------------------------------------- C7
\* C7: get_latest_baseline returns none exactly when no metadata record is
\* readable, and otherwise a stored baseline whose version_number is at
\* least that of every stored baseline, whatever the created_at values and
\* the order of the directory scan.
C7_LatestHasMaxVersionNumber ==
    \A glob \in GlobOrders(meta) :
        LET latest == get_latest_baseline(meta, glob)
        IN /\ latest = None <=> ReadableInfos(meta) = {}
           /\ latest # None =>
                /\ latest[1] \in ReadableInfos(meta)
                /\ \A r \in ReadableInfos(meta) :
                     latest[1].version_number >= r.version_number

\* list_baseline_versions puts a baseline first that has a smaller version
\* number than the one get_latest_baseline returns.
C7_Witness ==
    \E glob \in GlobOrders(meta) :
        /\ list_baseline_versions(meta, glob) # <<>>
        /\ list_baseline_versions(meta, glob)[1].version_number
             < get_latest_baseline(meta, glob)[1].version_number

\* ------------------------------------------------------- C8
ParsedNumbers(m) == {ParseVersionNumber(r.version_id) : r \in ReadableInfos(m)}

\* C8: get_next_version_number returns 1 when no record is stored, and
\* otherwise one more than the largest number parsed from the version ids of
\* the stored records, for every order of the directory scan; gaps are not
\* refilled.
C8_NextVersionNumberIsMaxPlusOne ==
    \A glob \in GlobOrders(meta) :
        LET next == get_next_version_number(meta, glob)
        IN /\ ReadableInfos(meta) = {} => next = 1
           /\ ReadableInfos(meta) # {} =>
                /\ next - 1 \in ParsedNumbers(meta)
                /\ \A n \in ParsedNumbers(meta) : n < next

\* Version 1 was deleted and version 2 is stored: the gap is not refilled,
\* the next number is 3.
C8_Witness ==
    /\ ParsedNumbers(meta) = {2}
    /\ 1 \in {ParseVersionNumber(v) : v \in deleted}
    /\ get_next_version_number(meta, AnyOrder(DOMAIN meta)) = 3

\* ------------------------------------------------------- C9
\* C9: for every metadata passed to a create that returns success,
\* get_baseline_by_version with the returned id returns a record whose
\* source_metadata is identical to the metadata passed in.
C9_RoundTripIdentical ==
    CreateSucceeded =>
        LET got == get_baseline_by_version(meta, ret.baseline_info.version_id)
        IN got # None /\ got[1].source_metadata = ret.baseline_info.source_metadata

\* The metadata holds only values that JSON represents as they are: string
\* dictionary keys and no tuples.
JsonNative(md) ==
    /\ \A k \in DOMAIN md.dtypes : k[1] = "str"
    /\ \A i \in DOMAIN md.column_names : md.column_names[i][1] # "tuple"

\* What does hold of the round trip: the record read back has the returned
\* version number, created_at and original filename, its source_metadata has
\* the row count, column count and number of columns passed in, and is
\* identical to the metadata passed in when that is JSON-native.
RoundTripJsonNative ==
    CreateSucceeded =>
        LET given == ret.baseline_info.source_metadata
            got == get_baseline_by_version(meta, ret.baseline_info.version_id)
        IN /\ got # None
           /\ got[1].version_number = ret.baseline_info.version_number
           /\ got[1].created_at = ret.baseline_info.created_at
           /\ got[1].original_filename = ret.baseline_info.original_filename
           /\ got[1].source_metadata.rows = given.rows
           /\ got[1].source_metadata.columns = given.columns
           /\ Len(got[1].source_metadata.column_names) = Len(given.column_names)
           /\ Cardinality(DOMAIN got[1].source_metadata.dtypes)
                = Cardinality(DOMAIN given.dtypes)
           /\ JsonNative(given) => got[1].source_metadata = given

\* ------------------------------------------------------- C10
CompareReturned == ret.op = "compare" /\ ret.comparison.has_baseline

FieldsOf(differences) == {differences[i].field : i \in DOMAIN differences}

Entry(differences, field) ==
    differences[CHOOSE i \in DOMAIN differences : differences[i].field = field]

\* C10: compare_with_baseline emits a difference entry for rows, columns,
\* column_schema or data_types exactly when that field differs between the
\* current metadata and the metadata the baseline was created from; the
\* column_schema entry lists the columns only the baseline has and the
\* columns only the current metadata has, and the data_types entry lists
\* exactly the columns of both schemas whose dtypes differ.
C10_DifferenceIffFieldDiffers ==
    CompareReturned =>
        LET current == ret.current_metadata
            baseline == passed[ret.comparison.baseline_version]
            differences == ret.comparison.differences
            fields == FieldsOf(differences)
            current_names == Range(current.column_names)
            baseline_names == Range(baseline.column_names)
            retyped == {c \in current_names \cap baseline_names :
                            current.dtypes[c] # baseline.dtypes[c]}
        IN /\ "rows" \in fields <=> current.rows # baseline.rows
           /\ "columns" \in fields <=> current.columns # baseline.columns
           /\ "column_schema" \in fields <=> current_names # baseline_names
           /\ "column_schema" \in fields =>
                /\ Entry(differences, "column_schema").missing_columns
                     = baseline_names \ current_names
                /\ Entry(differences, "column_schema").extra_columns
                     = current_names \ baseline_names
           /\ "data_types" \in fields <=> retyped # {}
           /\ "data_types" \in fields =>
                {ch.column : ch \in Entry(differences, "data_types").changes} = retyped

\* What does hold of the comparison: the same, for the baseline's metadata
\* as json.load returns it from the stored record.
DifferenceIffStoredFieldDiffers ==
    CompareReturned =>
        LET current == ret.current_metadata
            baseline == meta[ret.comparison.baseline_version][1].source_metadata
            differences == ret.comparison.differences
            fields == FieldsOf(differences)
            current_names == Range(current.column_names)
            baseline_names == Range(baseline.column_names)
            retyped == {c \in current_names \cap baseline_names :
                            GetOpt(current.dtypes, c) # GetOpt(baseline.dtypes, c)}
        IN /\ "rows" \in fields <=> current.rows # baseline.rows
           /\ "columns" \in fields <=> current.columns # baseline.columns
           /\ "column_schema" \in fields <=> current_names # baseline_names
           /\ "data_types" \in fields <=> retyped # {}

\* The baseline was created from columns {a, b, c}, the current metadata has
\* columns {a, b, d}, and the only entry is column_schema with c missing and
\* d extra.
C10_Witness ==
    /\ CompareReturned
    /\ passed[ret.comparison.baseline_version] = MdStr
    /\ ret.current_metadata = MdAbd
    /\ ret.comparison.differences
         = <<[field |-> "column_schema",
              missing_columns |-> {StrLabel("c")},
              extra_columns |-> {StrLabel("d")}]>>

\* ===================================================== quality reports
\* api/routes/quality_check.py: check_quality stores each report in the
\* reports directory as "<report_id>.json"; get_quality_report and
\* list_quality_reports read them back.  The variable reports maps a report
\* id to the stored report.
ReportTimes == 0..MaxReportTime

\* datetime.now().strftime('%Y%m%d_%H%M%S'): the reading cut to whole seconds
SecondStr(t) == t \div TicksPerSecond

\* f"quality_report_{...}"
ReportId(t) == <<"quality_report", SecondStr(t)>>

\* The files of the raw data directory (file id, file name, rows of the
\* frame read from it), and a file id that matches no file.
RawFiles ==
    { [rows |-> 10, file_id |-> "f1", filename |-> "f1_a.csv"],
      [rows |-> 20, file_id |-> "f2", filename |-> "f2_b.csv"] }

FileIds == {f.file_id : f \in RawFiles} \cup {"nofile"}

HTTPException(status_code) == [op |-> "http", status_code |-> status_code]

\* The report of one check: the fields that identify the request.  now is the
\* clock reading of the report id, stamp the later reading of "timestamp".
QualityReport(f, now, stamp) ==
    [rows |-> f.rows, file_id |-> f.file_id, filename |-> f.filename,
     report_id |-> ReportId(now), timestamp |-> stamp]

\* POST /check_quality with a file_id: 404 when no raw file matches, else the
\* report is built and written with open(report_path, 'w').
check_quality(file_id, now, stamp, max_calls) ==
    /\ calls < max_calls
    /\ calls' = calls + 1
    /\ LET found == {f \in RawFiles : f.file_id = file_id}
       IN  IF found = {}
           THEN /\ ret' = HTTPException(404)
                /\ UNCHANGED reports
           ELSE LET f == CHOOSE f \in found : TRUE
                    quality_report == QualityReport(f, now, stamp)
                IN  /\ reports' = WriteFile(reports, quality_report.report_id,
                                            quality_report)
                    /\ ret' = [op |-> "check_quality", status_code |-> 200,
                               report |-> quality_report]
    /\ UNCHANGED <<versioning, scorer, detector>>

\* GET /quality_report/{report_id}
get_quality_report(report_id, max_calls) ==
    /\ calls < max_calls
    /\ calls' = calls + 1
    /\ ret' = IF report_id \in DOMAIN reports
              THEN [op |-> "get_quality_report", status_code |-> 200,
                    report |-> reports[report_id]]
              ELSE HTTPException(404)
    /\ UNCHANGED <<versioning, quality>>

\* GET /list_quality_reports: the stored reports, newest timestamp first
\* (the set of listed reports; the stored report ids are distinct file names).
list_quality_reports(max_calls) ==
    /\ calls < max_calls
    /\ calls' = calls + 1
    /\ ret' = [reports |-> {reports[id] : id \in DOMAIN reports}, op |-> "list_quality_reports",
               status_code |-> 200,
               count |-> Cardinality(DOMAIN reports)]
    /\ UNCHANGED <<versioning, quality>>

\* Requests to the quality routes, one after the other; a request reads the
\* clock twice (report id, timestamp), the second reading not before the first.
ReportNext ==
    \/ \E file_id \in FileIds, now \in ReportTimes, stamp \in ReportTimes :
            /\ now <= stamp
            /\ check_quality(file_id, now, stamp, MaxReportCalls)
    \/ \E t \in ReportTimes : get_quality_report(ReportId(t), MaxReportCalls)
    \/ list_quality_reports(MaxReportCalls)

ReportSpec == Init /\ [][ReportNext]_vars

\* C11: a report stored under a report id is never overwritten: every stored
\* report stays stored, with the same content, across every step.
C11_ReportsAppendOnly ==
    [][\A id \in DOMAIN reports :
            id \in DOMAIN reports' /\ reports'[id] = reports[id]]_vars

\* ===================================================== quality score
\* utils/quality_scorer.py, class QualityScorer.  Python floats are modelled
\* as exact rationals <<numerator, denominator>> in lowest terms with a
\* positive denominator; the float error of the source's arithmetic (below
\* 1e-12 on these magnitudes) is far under the two decimals it rounds to.
RECURSIVE GCD(_, _)
GCD(a, b) == IF b = 0 THEN a ELSE GCD(b, a % b)

IAbs(n) == IF n < 0 THEN -n ELSE n

Frac(n, d) ==
    LET g == GCD(IAbs(n), IAbs(d))
        sgn == IF d < 0 THEN -1 ELSE 1
    IN  <<(sgn * n) \div g, (sgn * d) \div g>>

Num(n) == <<n, 1>>

RAdd(x, y) ==
    LET g == GCD(x[2], y[2])
    IN  Frac(x[1] * (y[2] \div g) + y[1] * (x[2] \div g), x[2] * (y[2] \div g))

RNeg(x) == <<-x[1], x[2]>>

RSub(x, y) == RAdd(x, RNeg(y))

\* x * y, cancelling across the factors first
RMul(x, y) ==
    LET g1 == GCD(IAbs(x[1]), y[2])
        g2 == GCD(IAbs(y[1]), x[2])
    IN  IF x[1] = 0 \/ y[1] = 0 THEN Num(0)
        ELSE <<(x[1] \div g1) * (y[1] \div g2), (x[2] \div g2) * (y[2] \div g1)>>

\* x / y for y # 0
RDiv(x, y) == RMul(x, Frac(y[2], y[1]))

RLt(x, y) == x[1] * y[2] < y[1] * x[2]

RLe(x, y) == x[1] * y[2] <= y[1] * x[2]

RAbs(x) == <<IAbs(x[1]), x[2]>>

RMax(x, y) == IF RLt(x, y) THEN y ELSE x

RMin(x, y) == IF RLt(y, x) THEN y ELSE x

Floor(x) == x[1] \div x[2]

\* round(x, 2): the nearest multiple of 0.01.  When x lies exactly halfway in
\* this model, the float the source holds lies on either side of it, so both
\* neighbours are possible results.
Round2(x) ==
    LET y == RMul(x, Num(100))
        f == Floor(y)
        r == RSub(y, Num(f))
    IN  IF RLt(r, Frac(1, 2)) THEN {Frac(f, 100)}
        ELSE IF RLt(Frac(1, 2), r) THEN {Frac(f + 1, 100)}
        ELSE {Frac(f, 100), Frac(f + 1, 100)}

RSum4(w) == RAdd(RAdd(w[1], w[2]), RAdd(w[3], w[4]))

\* The weights a caller passes: (missing, duplicate, outlier, schema).
DefaultWeights == <<Num(30), Num(25), Num(25), Num(20)>>

WeightConfigs ==
    { DefaultWeights,
      <<Num(40), Num(40), Num(40), Num(40)>>,
      <<Num(1), Num(1), Num(1), Num(1)>>,
      <<Num(7), Num(11), Num(13), Num(17)>>,
      <<Num(100), Num(0), Num(0), Num(0)>>,
      <<Frac(30008, 1000), Num(25), Num(25), Num(20)>>,
      <<Frac(29992, 1000), Num(25), Num(25), Num(20)>>,
      <<Frac(30005, 1000), Num(25), Num(25), Num(20)>>,
      <<Num(0), Num(0), Num(0), Num(0)>> }

\* QualityScorer.__init__: the object it leaves, or None when it raises
\* ZeroDivisionError (total of the weights is 0, at "(w / total) * 100").
NewQualityScorer(w) ==
    LET total == RSum4(w)
    IN  IF RLt(Frac(1, 100), RAbs(RSub(total, Num(100))))
        THEN IF total[1] = 0
             THEN None
             ELSE Some([missing_weight |-> RMul(RDiv(w[1], total), Num(100)),
                        duplicate_weight |-> RMul(RDiv(w[2], total), Num(100)),
                        outlier_weight |-> RMul(RDiv(w[3], total), Num(100)),
                        schema_weight |-> RMul(RDiv(w[4], total), Num(100))])
        ELSE Some([missing_weight |-> w[1], duplicate_weight |-> w[2],
                   outlier_weight |-> w[3], schema_weight |-> w[4]])

\* scorer = QualityScorer(*w)
Construct(w) ==
    /\ LET made == NewQualityScorer(w)
       IN  IF made = None
           THEN /\ ret' = [op |-> "QualityScorer", weights |-> w,
                           raised |-> Some("ZeroDivisionError")]
                /\ UNCHANGED scorer
           ELSE /\ ret' = [op |-> "QualityScorer", weights |-> w, raised |-> None]
                /\ scorer' = made
    /\ UNCHANGED <<versioning, calls, reports, detector>>

\* ------------------------------------------------- analyzer outputs
\* A dataset is given by what the analyzers count in it: its rows, per column
\* the nulls and (for a numeric column) the outliers each detection method
\* flags, and the rows that df.duplicated(keep=False) flags.
Column(name, numeric, missing, outliers, skewed) ==
    [column |-> name, numeric |-> numeric, missing |-> missing,
     outliers |-> outliers, skewed |-> skewed]

NoOutliers == [both |-> 0, iqr |-> 0, z_score |-> 0]

DsClean ==
    [rows |-> 100, columns |-> <<Column("x", TRUE, 0, NoOutliers, FALSE),
                   Column("y", TRUE, 0, NoOutliers, FALSE),
                   Column("name", FALSE, 0, NoOutliers, FALSE)>>,
     duplicates |-> 0]

DsDirty ==
    [rows |-> 100, columns |-> <<Column("name", FALSE, 5, NoOutliers, FALSE),
                   Column("y", TRUE, 20, [both |-> 3, iqr |-> 3, z_score |-> 1], TRUE),
                   Column("x", TRUE, 60, [both |-> 4, iqr |-> 4, z_score |-> 0], FALSE)>>,
     duplicates |-> 10]

\* 2 identical rows and 1 outlier among 50000 rows
DsBig ==
    [rows |-> 50000, columns |->
                   <<Column("v", TRUE, 0, [both |-> 1, iqr |-> 1, z_score |-> 1], FALSE)>>,
     duplicates |-> 2]

\* every row the same, one column without any value
DsFull ==
    [rows |-> 10, columns |-> <<Column("c", TRUE, 10, NoOutliers, FALSE),
                   Column("k", FALSE, 0, NoOutliers, FALSE)>>,
     duplicates |-> 10]

DsEmpty ==
    [rows |-> 0, columns |-> <<Column("x", TRUE, 0, NoOutliers, FALSE),
                   Column("name", FALSE, 0, NoOutliers, FALSE)>>,
     duplicates |-> 0]

\* a few identical rows and outliers among 1000 rows
DsLight ==
    [rows |-> 1000, columns |->
                   <<Column("a", TRUE, 20, [both |-> 6, iqr |-> 5, z_score |-> 2], FALSE),
                   Column("b", TRUE, 0, [both |-> 80, iqr |-> 70, z_score |-> 30], TRUE)>>,
     duplicates |-> 4]

Datasets == {DsClean, DsDirty, DsLight, DsBig, DsFull, DsEmpty}

RECURSIVE SumSeq(_)
SumSeq(seq) == IF seq = <<>> THEN 0 ELSE Head(seq) + SumSeq(Tail(seq))

\* All sequences that take their i-th element from the set choices[i].
RECURSIVE Product(_)
Product(choices) ==
    IF choices = <<>> THEN {<<>>}
    ELSE {<<h>> \o t : h \in Head(choices), t \in Product(Tail(choices))}

\* list.sort(key=...): the stable ascending sort of seq, key[i] being the
\* integer key of seq[i].
StableSort(seq, key) ==
    LET n == Len(seq)
        rank(i) == Cardinality({j \in 1..n : \/ key[j] < key[i]
                                             \/ key[j] = key[i] /\ j < i}) + 1
    IN  [p \in 1..n |-> seq[CHOOSE i \in 1..n : rank(i) = p]]

\* A percentage rounded to two decimals, in hundredths
Hundredths(pct) == Floor(RMul(pct, Num(100)))

\* part / whole * 100
Percentage(part, whole) == RMul(Frac(part, whole), Num(100))

\* MissingValueAnalyzer(warn_threshold=10.0, error_threshold=50.0), as the
\* route constructs it
WarnThreshold == Num(10)
ErrorThreshold == Num(50)

\* MissingValueAnalyzer.__init__ stores the two thresholds
NewMissingValueAnalyzer(warn_threshold, error_threshold) ==
    [warn_threshold |-> warn_threshold, error_threshold |-> error_threshold]

\* MissingValueAnalyzer(): the analyzer of the default thresholds, which is
\* also the analyzer check_quality constructs
DefaultAnalyzer == NewMissingValueAnalyzer(WarnThreshold, ErrorThreshold)

\* (variant) the severity with a percentage equal to the error threshold
\* taken as below it
MissingSeverity_strict(self, percentage) ==
    IF RLt(self.error_threshold, percentage) THEN "high"
    ELSE IF RLe(self.warn_threshold, percentage) THEN "medium"
    ELSE "low"

MissingSeverity(self, percentage) ==
    IF RLe(self.error_threshold, percentage) THEN "high"
    ELSE IF RLe(self.warn_threshold, percentage) THEN "medium"
    ELSE "low"

\* _generate_recommendation: drop_column from the error threshold on, else an
\* imputation chosen from the column's dtype and skewness
MissingRecommendation(self, c, percentage) ==
    IF RLe(self.error_threshold, percentage) THEN "drop_column"
    ELSE IF ~c.numeric THEN "impute_mode"
    ELSE IF c.skewed THEN "impute_median"
    ELSE "impute_mean"

MissingDetails(self, c, rows) ==
    { [column |-> c.column, missing_count |-> c.missing, missing_percentage |-> p,
       severity |-> MissingSeverity(self, p),
       recommendation |-> MissingRecommendation(self, c, p)] :
      p \in Round2(Percentage(c.missing, rows)) }

\* _generate_summary: the severities counted, and the first of the sorted
\* details as the worst column
generate_summary(details) ==
    IF details = <<>>
    THEN [high_severity |-> 0, medium_severity |-> 0, low_severity |-> 0,
          worst_column |-> None, worst_percentage |-> Num(0)]
    ELSE [high_severity |-> Len(SelectSeq(details, LAMBDA d : d.severity = "high")),
          medium_severity |-> Len(SelectSeq(details, LAMBDA d : d.severity = "medium")),
          low_severity |-> Len(SelectSeq(details, LAMBDA d : d.severity = "low")),
          worst_column |-> Some(details[1].column),
          worst_percentage |-> details[1].missing_percentage]

\* (variant) the details left in the order of the columns
unsorted_details(details) == details

\* details.sort(key=lambda x: x['missing_percentage'], reverse=True): by
\* percentage descending, details of equal percentage in the order of the columns
sorted_details(details) ==
    StableSort(details, [i \in DOMAIN details |-> -Hundredths(details[i].missing_percentage)])

\* MissingValueAnalyzer.analyze: the results it can return for the dataset
analyze_missing(self, ds) ==
    LET with_missing == SelectSeq(ds.columns, LAMBDA c : c.missing > 0)
        total_missing == SumSeq([i \in DOMAIN ds.columns |-> ds.columns[i].missing])
        total_cells == ds.rows * Len(ds.columns)
        overall == IF total_cells > 0
                   THEN Round2(Percentage(total_missing, total_cells))
                   ELSE {Num(0)}
    IN  { [details |-> sorted_details(d), total_missing |-> total_missing,
           total_cells |-> total_cells,
           overall_missing_percentage |-> o,
           columns_affected |-> Len(with_missing),
           columns_with_missing |-> [i \in DOMAIN with_missing |-> with_missing[i].column],
           summary |-> generate_summary(sorted_details(d))] :
          o \in overall,
          d \in Product([i \in DOMAIN with_missing |->
                            MissingDetails(self, with_missing[i], ds.rows)]) }

\* MissingValueAnalyzer(warn_threshold=10.0, error_threshold=50.0).analyze
MissingAnalyses(ds) == analyze_missing(DefaultAnalyzer, ds)

\* DuplicateDetector._get_severity and OutlierDetector._get_severity
PercentageSeverity(percentage) ==
    IF percentage = Num(0) THEN "none"
    ELSE IF RLt(percentage, Num(1)) THEN "low"
    ELSE IF RLt(percentage, Num(5)) THEN "medium"
    ELSE "high"

DuplicateRecommendation(percentage) ==
    IF percentage = Num(0) THEN "no_action"
    ELSE IF RLt(percentage, Num(1)) THEN "keep_first"
    ELSE IF RLt(percentage, Num(5)) THEN "review_and_remove"
    ELSE IF RLt(percentage, Num(20)) THEN "investigate_cause"
    ELSE "major_issue_investigate"

\* DuplicateDetector(check_full_row=True).analyze, from the rows of the
\* frame and the rows that duplicated(keep=False) flags
DuplicateAnalyses(total_rows, duplicate_count) ==
    { [severity |-> PercentageSeverity(p), recommendation |-> DuplicateRecommendation(p),
       total_rows |-> total_rows, total_duplicates |-> duplicate_count,
       duplicate_percentage |-> p,
       unique_rows |-> total_rows - duplicate_count] :
      p \in IF total_rows > 0 THEN Round2(Percentage(duplicate_count, total_rows))
            ELSE {Num(0)} }

OutlierRecommendation(percentage, skewed) ==
    IF percentage = Num(0) THEN "no_action"
    ELSE IF RLt(percentage, Num(1)) THEN "investigate"
    ELSE IF RLt(percentage, Num(5)) THEN (IF skewed THEN "transform_log" ELSE "winsorize")
    ELSE IF RLt(percentage, Num(10)) THEN "clip_bounds"
    ELSE "investigate_data_quality"

\* OutlierDetector._analyze_column for a column that has values and a
\* supported method
OutlierDetails(c, rows, method) ==
    { [column |-> c.column, severity |-> PercentageSeverity(p),
       recommendation |-> OutlierRecommendation(p, c.skewed),
       method |-> method, outlier_count |-> c.outliers[method],
       total_values |-> rows - c.missing,
       outlier_percentage |-> p] :
      p \in Round2(Percentage(c.outliers[method], rows - c.missing)) }

\* OutlierDetector(method).analyze for a supported method
OutlierAnalyses(ds, method) ==
    LET numeric_columns == SelectSeq(ds.columns, LAMBDA c : c.numeric)
        analysed == SelectSeq(numeric_columns, LAMBDA c : ds.rows - c.missing > 0)
        total_outliers == SumSeq([i \in DOMAIN analysed |-> analysed[i].outliers[method]])
        total_values == ds.rows * Len(numeric_columns)
        overall == IF total_values > 0
                   THEN Round2(Percentage(total_outliers, total_values))
                   ELSE {Num(0)}
    IN  IF numeric_columns = <<>>
        THEN {[details |-> <<>>, method |-> method, outlier_percentage |-> Num(0),
               total_outliers |-> 0]}
        ELSE { [details |-> d, method |-> method,
                outlier_percentage |-> o, total_outliers |-> total_outliers] :
               o \in overall,
               d \in Product([i \in DOMAIN analysed |->
                                 OutlierDetails(analysed[i], ds.rows, method)]) }

\* ------------------------------------------------- calculate_score
Methods == {"iqr", "z_score", "both"}

\* check_missing, check_duplicates, check_outliers of a request
Checks(missing, duplicates, outliers) ==
    [check_missing |-> missing, check_duplicates |-> duplicates,
     check_outliers |-> outliers]

CheckConfigs ==
    {Checks(TRUE, TRUE, TRUE), Checks(FALSE, TRUE, TRUE), Checks(TRUE, FALSE, TRUE),
     Checks(TRUE, TRUE, FALSE)}

\* The three blocks check_quality computes for a dataset (steps 1 to 3); an
\* analysis that is switched off leaves a block of zeros.
MissingBlocks(ds, checks) ==
    IF checks.check_missing THEN MissingAnalyses(ds)
    ELSE {[details |-> <<>>, total_missing |-> 0,
           overall_missing_percentage |-> Num(0)]}

DuplicateBlocks(ds, checks) ==
    IF checks.check_duplicates THEN DuplicateAnalyses(ds.rows, ds.duplicates)
    ELSE {[total_duplicates |-> 0, duplicate_percentage |-> Num(0)]}

OutlierBlocks(ds, checks, method) ==
    IF checks.check_outliers THEN OutlierAnalyses(ds, method)
    ELSE {[details |-> <<>>, outlier_percentage |-> Num(0), total_outliers |-> 0]}

\* The schema_analysis argument: None, or a dictionary with any of the keys
\* all_valid, inconsistencies and total_columns.
SchemaBlocks ==
    { <<>>,
      [all_valid |-> TRUE, inconsistencies |-> <<>>, total_columns |-> 4],
      [all_valid |-> FALSE, inconsistencies |-> <<"a">>, total_columns |-> 4],
      [all_valid |-> FALSE, inconsistencies |-> <<"a">>, total_columns |-> 3],
      [all_valid |-> FALSE, inconsistencies |-> <<"a", "b", "c">>, total_columns |-> 2],
      [all_valid |-> FALSE, inconsistencies |-> <<"a">>, total_columns |-> 0],
      [all_valid |-> FALSE, inconsistencies |-> <<"a">>],
      [all_valid |-> FALSE],
      [all_valid |-> TRUE, inconsistencies |-> <<"a">>, total_columns |-> 4],
      [inconsistencies |-> <<"a">>, total_columns |-> 4],
      [inconsistencies |-> <<>>, total_columns |-> 4] }

SchemaArgs == {None} \cup {Some(b) : b \in SchemaBlocks}

\* (variant) _calculate_schema_score without the floor "max(0, ...)"
calculate_schema_score_unfloored(schema_analysis) ==
    IF Get(schema_analysis, "all_valid", TRUE) THEN Some(Num(100))
    ELSE LET inconsistencies == Len(Get(schema_analysis, "inconsistencies", <<>>))
             total_columns == Get(schema_analysis, "total_columns", 1)
         IN  IF total_columns = 0 THEN None
             ELSE Some(Percentage(total_columns - inconsistencies, total_columns))

\* _calculate_schema_score: Some(score), or None when it raises
\* ZeroDivisionError (total_columns is 0)
calculate_schema_score(schema_analysis) ==
    IF Get(schema_analysis, "all_valid", TRUE) THEN Some(Num(100))
    ELSE LET inconsistencies == Len(Get(schema_analysis, "inconsistencies", <<>>))
             total_columns == Get(schema_analysis, "total_columns", 1)
         IN  IF total_columns = 0 THEN None
             ELSE Some(RMax(Num(0),
                            Percentage(total_columns - inconsistencies, total_columns)))

get_grade(score) ==
    IF RLe(Num(90), score) THEN "Excellent"
    ELSE IF RLe(Num(80), score) THEN "Very Good"
    ELSE IF RLe(Num(70), score) THEN "Good"
    ELSE IF RLe(Num(60), score) THEN "Fair"
    ELSE IF RLe(Num(50), score) THEN "Poor"
    ELSE "Critical"

\* score * weight / 100
Contribution(score, weight) == RDiv(RMul(score, weight), Num(100))

\* One entry of the breakdown, for each way the roundings can fall
BreakdownEntries(score, weight) ==
    { [score |-> sc, weight |-> weight, contribution |-> c] :
      sc \in Round2(score), c \in Round2(Contribution(score, weight)) }

\* The schema score of the schema_analysis argument: 100 when it is None or
\* an empty dictionary ("if schema_analysis:")
SchemaScoreOf(schema_analysis) ==
    IF schema_analysis = None \/ schema_analysis[1] = <<>> THEN Some(Num(100))
    ELSE calculate_schema_score(schema_analysis[1])

\* The weighted sum of calculate_score before it is rounded
WeightedSum(q, missing_score, duplicate_score, outlier_score, schema_score) ==
    RAdd(RAdd(Contribution(missing_score, q.missing_weight),
              Contribution(duplicate_score, q.duplicate_weight)),
         RAdd(Contribution(outlier_score, q.outlier_weight),
              Contribution(schema_score, q.schema_weight)))

\* QualityScorer.calculate_score of the scorer q: the results it can return;
\* none when it raises.
calculate_score(q, missing_analysis, duplicate_analysis, outlier_analysis, schema_analysis) ==
    LET missing_pct == Get(missing_analysis, "overall_missing_percentage", Num(0))
        missing_score == RMax(Num(0), RSub(Num(100), missing_pct))
        duplicate_pct == Get(duplicate_analysis, "duplicate_percentage", Num(0))
        duplicate_score == RMax(Num(0), RSub(Num(100), duplicate_pct))
        outlier_pct == Get(outlier_analysis, "outlier_percentage", Num(0))
        outlier_score == RMax(Num(0), RSub(Num(100), RMin(outlier_pct, Num(100))))
        schema == SchemaScoreOf(schema_analysis)
    IN  IF schema = None THEN {}
        ELSE { [overall_score |-> overall, grade |-> get_grade(overall),
                breakdown |-> [outliers |-> o, duplicates |-> d,
                               missing_values |-> m, schema_consistency |-> sc]] :
               overall \in Round2(WeightedSum(q, missing_score, duplicate_score,
                                               outlier_score, schema[1])),
               m \in BreakdownEntries(missing_score, q.missing_weight),
               d \in BreakdownEntries(duplicate_score, q.duplicate_weight),
               o \in BreakdownEntries(outlier_score, q.outlier_weight),
               sc \in BreakdownEntries(schema[1], q.schema_weight) }

\* scorer.calculate_score(missing_analysis, duplicate_analysis,
\* outlier_analysis, schema_analysis), called on the scorer just constructed
\* (check_quality step 4, calculate_quality_score)
CalculateScore(missing_analysis, duplicate_analysis, outlier_analysis, schema_analysis) ==
    /\ ret.op = "QualityScorer"
    /\ scorer # None
    /\ LET results == calculate_score(scorer[1], missing_analysis, duplicate_analysis,
                                      outlier_analysis, schema_analysis)
           call == [op |-> "calculate_score",
                    schema_analysis |-> schema_analysis,
                    missing_analysis |-> missing_analysis,
                    duplicate_analysis |-> duplicate_analysis,
                    outlier_analysis |-> outlier_analysis]
       IN  IF results = {}
           THEN ret' = [call EXCEPT !.op = "calculate_score raised"]
           ELSE \E result \in results :
                    ret' = [f \in DOMAIN call \cup {"result"} |->
                                IF f = "result" THEN result ELSE call[f]]
    /\ UNCHANGED <<versioning, calls, quality>>

\* severity to priority, as get_recommendations maps it
Priority(severity) ==
    IF severity = "high" THEN "high"
    ELSE IF severity = "medium" THEN "medium"
    ELSE "low"

Recommendation(priority, category, column, action) ==
    [column |-> column, priority |-> priority, category |-> category,
     action |-> action]

MissingRecommendations(missing_analysis) ==
    IF RLt(Num(0), Get(missing_analysis, "overall_missing_percentage", Num(0)))
    THEN LET details == SelectSeq(Get(missing_analysis, "details", <<>>),
                                  LAMBDA x : x.severity \in {"high", "medium"})
         IN  [i \in DOMAIN details |->
                Recommendation(details[i].severity, "missing_values",
                               details[i].column, details[i].recommendation)]
    ELSE <<>>

DuplicateRecommendations(duplicate_analysis) ==
    IF RLt(Num(0), Get(duplicate_analysis, "duplicate_percentage", Num(0)))
    THEN <<Recommendation(Priority(Get(duplicate_analysis, "severity", "low")),
                          "duplicates", "rows", duplicate_analysis.recommendation)>>
    ELSE <<>>

OutlierRecommendations(outlier_analysis) ==
    IF RLt(Num(0), Get(outlier_analysis, "outlier_percentage", Num(0)))
    THEN LET details == SelectSeq(Get(outlier_analysis, "details", <<>>),
                                  LAMBDA x : Get(x, "outlier_count", 0) > 0)
         IN  [i \in DOMAIN details |->
                Recommendation(Priority(Get(details[i], "severity", "low")), "outliers",
                               details[i].column, details[i].recommendation)]
    ELSE <<>>

\* priority_order.get(x['priority'], 3)
PriorityOrder(x) ==
    IF x.priority = "high" THEN 0
    ELSE IF x.priority = "medium" THEN 1
    ELSE IF x.priority = "low" THEN 2
    ELSE 3

\* The recommendations in the order they are appended, before the sort
Appended(missing_analysis, duplicate_analysis, outlier_analysis) ==
    MissingRecommendations(missing_analysis)
        \o DuplicateRecommendations(duplicate_analysis)
        \o OutlierRecommendations(outlier_analysis)

\* (variant) get_recommendations whose sort puts the later of two
\* recommendations of equal priority first
get_recommendations_unstable(missing_analysis, duplicate_analysis, outlier_analysis) ==
    LET appended == Appended(missing_analysis, duplicate_analysis, outlier_analysis)
        n == Len(appended)
        reversed == [i \in 1..n |-> appended[n + 1 - i]]
    IN  StableSort(reversed, [i \in 1..n |-> PriorityOrder(reversed[i])])

\* QualityScorer.get_recommendations
get_recommendations(missing_analysis, duplicate_analysis, outlier_analysis) ==
    LET appended == Appended(missing_analysis, duplicate_analysis, outlier_analysis)
    IN  StableSort(appended, [i \in DOMAIN appended |-> PriorityOrder(appended[i])])

\* scorer.get_recommendations(...) on the three blocks that were just scored
\* (check_quality step 5)
GetRecommendations ==
    /\ ret.op = "calculate_score"
    /\ ret' = [op |-> "get_recommendations",
               missing_analysis |-> ret.missing_analysis,
               duplicate_analysis |-> ret.duplicate_analysis,
               outlier_analysis |-> ret.outlier_analysis,
               recommendations |-> get_recommendations(ret.missing_analysis,
                                        ret.duplicate_analysis, ret.outlier_analysis)]
    /\ UNCHANGED <<versioning, calls, quality>>

\* A scorer is used as check_quality uses it: constructed, asked for the
\* score of three analysis blocks, then for the recommendations on them.
ScorerNext ==
    \/ \E w \in WeightConfigs : Construct(w)
    \/ GetRecommendations
    \/ \E ds \in Datasets, checks \in CheckConfigs, method \in Methods,
          schema \in SchemaArgs :
            \E m \in MissingBlocks(ds, checks), d \in DuplicateBlocks(ds, checks),
               o \in OutlierBlocks(ds, checks, method) :
                CalculateScore(m, d, o, schema)

ScorerSpec == Init /\ [][ScorerNext]_vars

\* The four stored weights of a scorer object
StoredWeights(q) ==
    <<q.missing_weight, q.duplicate_weight, q.outlier_weight, q.schema_weight>>

WithinTolerance(total) == RLe(RAbs(RSub(total, Num(100))), Frac(1, 100))

\* C12: whatever weights the caller supplies, the construction yields a
\* scorer whose four stored weights sum to 100 within 0.01.
C12_WeightsSumTo100 ==
    ret.op = "QualityScorer" =>
        /\ ret.raised = None
        /\ scorer # None
        /\ WithinTolerance(RSum4(StoredWeights(scorer[1])))

\* Supporting C12: every scorer that was constructed has weights that sum to
\* 100 within 0.01 (the claim fails only where no scorer is constructed).
ConstructedWeightsSumTo100 ==
    scorer # None => WithinTolerance(RSum4(StoredWeights(scorer[1])))

\* ------------------------------------------------- score views
\* calculate_score returned (ret holds its arguments and its result)
ScoreReturned == ret.op = "calculate_score"

InRange(score) == RLe(Num(0), score) /\ RLe(score, Num(100))

\* C13: each of the four component scores of a returned breakdown lies in
\* [0, 100], for every combination of analysis blocks and schema block.
C13_ComponentScoresInRange ==
    ScoreReturned =>
        \A component \in DOMAIN ret.result.breakdown :
            InRange(ret.result.breakdown[component].score)

\* A score where both ends are met: every row is a duplicate (score 0), half
\* of the cells are missing (score 50), and the schema block lists more
\* inconsistencies than columns (score floored at 0).
C13_Witness ==
    /\ ScoreReturned
    /\ ret.schema_analysis # None
    /\ Len(Get(ret.schema_analysis[1], "inconsistencies", <<>>))
            > Get(ret.schema_analysis[1], "total_columns", 1)
    /\ Get(ret.schema_analysis[1], "total_columns", 1) > 1
    /\ ret.result.breakdown.schema_consistency.score = Num(0)
    /\ ret.result.breakdown.duplicates.score = Num(0)
    /\ ret.result.breakdown.missing_values.score = Num(50)
    /\ ret.result.breakdown.outliers.score = Num(100)

\* The inconsistencies a schema block reports, and its column count
ReportedInconsistencies(block) == Len(Get(block, "inconsistencies", <<>>))

TotalColumns(block) == Get(block, "total_columns", 1)

\* (total_columns - inconsistencies) / total_columns * 100, floored at 0
ConsistencyScore(block) ==
    RMax(Num(0), Percentage(TotalColumns(block) - ReportedInconsistencies(block),
                            TotalColumns(block)))

\* C14: for every schema block that is scored, the schema component score is
\* 100 if the block reports no inconsistencies, and otherwise
\* (total_columns - inconsistencies) / total_columns * 100 floored at 0.
C14_SchemaScoreFromInconsistencies ==
    (ScoreReturned /\ ret.schema_analysis # None) =>
        LET block == ret.schema_analysis[1]
            score == ret.result.breakdown.schema_consistency.score
        IN  IF ReportedInconsistencies(block) = 0
            THEN score = Num(100)
            ELSE score \in Round2(ConsistencyScore(block))

\* Supporting C14: the score follows the all_valid flag of the block (true
\* when the key is absent), and the reported inconsistencies only when the
\* flag is false.
SchemaScoreFromAllValid ==
    (ScoreReturned /\ ret.schema_analysis # None) =>
        LET block == ret.schema_analysis[1]
            score == ret.result.breakdown.schema_consistency.score
        IN  IF Get(block, "all_valid", TRUE)
            THEN score = Num(100)
            ELSE score \in Round2(ConsistencyScore(block))

\* A block that lists an inconsistency among 4 columns and has no all_valid
\* key is scored 100.
C14_Witness ==
    /\ ScoreReturned
    /\ ret.schema_analysis # None
    /\ "all_valid" \notin DOMAIN ret.schema_analysis[1]
    /\ ReportedInconsistencies(ret.schema_analysis[1]) = 1
    /\ TotalColumns(ret.schema_analysis[1]) = 4
    /\ ret.result.breakdown.schema_consistency.score = Num(100)

\* ------------------------------------------------- recommendation views
RecommendationsReturned == ret.op = "get_recommendations"

\* The recommendations of a category, as the set of their positions
Positions(recommendations, category) ==
    {i \in DOMAIN recommendations : recommendations[i].category = category}

\* The details of an analysis block (none in a block without the key)
DetailsOf(analysis) == Range(Get(analysis, "details", <<>>))

\* C15: get_recommendations returns exactly one recommendation per missing
\* detail of severity medium or high (with that priority), exactly one for
\* duplicates when the dataset has duplicate rows, and exactly one per column
\* with outlier_count > 0, and no others.
C15_OneRecommendationPerIssue ==
    RecommendationsReturned =>
        LET recs == ret.recommendations
            missing == {x \in DetailsOf(ret.missing_analysis) :
                            x.severity \in {"high", "medium"}}
            outlying == {x \in DetailsOf(ret.outlier_analysis) : x.outlier_count > 0}
        IN  /\ \A x \in missing :
                  \E i \in Positions(recs, "missing_values") :
                      /\ recs[i].column = x.column
                      /\ recs[i].priority = x.severity
            /\ Cardinality(Positions(recs, "missing_values")) = Cardinality(missing)
            /\ Cardinality(Positions(recs, "duplicates"))
                  = IF ret.duplicate_analysis.total_duplicates > 0 THEN 1 ELSE 0
            /\ \A x \in outlying :
                  \E i \in Positions(recs, "outliers") : recs[i].column = x.column
            /\ Cardinality(Positions(recs, "outliers")) = Cardinality(outlying)

\* Supporting C15: the same, where each category is counted only when the
\* overall percentage of its block, rounded to two decimals, is above 0.
RecommendationPerIssueAbovePercentage ==
    RecommendationsReturned =>
        LET recs == ret.recommendations
            missing == IF RLt(Num(0), ret.missing_analysis.overall_missing_percentage)
                       THEN {x \in DetailsOf(ret.missing_analysis) :
                                x.severity \in {"high", "medium"}}
                       ELSE {}
            outlying == IF RLt(Num(0), ret.outlier_analysis.outlier_percentage)
                        THEN {x \in DetailsOf(ret.outlier_analysis) : x.outlier_count > 0}
                        ELSE {}
        IN  /\ \A x \in missing :
                  \E i \in Positions(recs, "missing_values") :
                      /\ recs[i].column = x.column
                      /\ recs[i].priority = x.severity
            /\ Cardinality(Positions(recs, "missing_values")) = Cardinality(missing)
            /\ Cardinality(Positions(recs, "duplicates"))
                  = IF RLt(Num(0), ret.duplicate_analysis.duplicate_percentage)
                    THEN 1 ELSE 0
            /\ \A x \in outlying :
                  \E i \in Positions(recs, "outliers") : recs[i].column = x.column
            /\ Cardinality(Positions(recs, "outliers")) = Cardinality(outlying)

\* 2 duplicate rows and a column with 1 outlier among 50000 rows, and no
\* recommendation at all.
C15_Witness ==
    /\ RecommendationsReturned
    /\ ret.duplicate_analysis.total_duplicates = 2
    /\ \E x \in DetailsOf(ret.outlier_analysis) : x.outlier_count = 1
    /\ ret.recommendations = <<>>

\* The place of a recommendation in the order of generation: missing values,
\* then duplicates, then outliers, and within a category the place of its
\* column in the details of the block.
CategoryRank(category) ==
    IF category = "missing_values" THEN 1
    ELSE IF category = "duplicates" THEN 2
    ELSE 3

DetailPlace(analysis, column) ==
    LET details == Get(analysis, "details", <<>>)
        places == {i \in DOMAIN details : details[i].column = column}
    IN  IF places = {} THEN 0 ELSE CHOOSE i \in places : \A j \in places : i <= j

GeneratedBefore(x, y) ==
    \/ CategoryRank(x.category) < CategoryRank(y.category)
    \/ /\ x.category = y.category
       /\ LET analysis == IF x.category = "missing_values" THEN ret.missing_analysis
                          ELSE ret.outlier_analysis
          IN  DetailPlace(analysis, x.column) < DetailPlace(analysis, y.column)

\* C16: the returned list has every high before every medium before every
\* low recommendation, and recommendations of equal priority stay in their
\* order of generation.
C16_PriorityOrderStable ==
    RecommendationsReturned =>
        LET recs == ret.recommendations
        IN  \A i, j \in DOMAIN recs :
                i < j =>
                    /\ recs[i].priority \in {"high", "medium", "low"}
                    /\ PriorityOrder(recs[i]) <= PriorityOrder(recs[j])
                    /\ (recs[i].priority = recs[j].priority
                            => GeneratedBefore(recs[i], recs[j]))

\* The sort moved a high outlier recommendation before the low duplicate
\* recommendation and the low outlier recommendation, which keep their order.
C16_Witness ==
    /\ RecommendationsReturned
    /\ Len(ret.recommendations) = 3
    /\ ret.recommendations[1].category = "outliers"
    /\ ret.recommendations[1].priority = "high"
    /\ ret.recommendations[2].category = "duplicates"
    /\ ret.recommendations[2].priority = "low"
    /\ ret.recommendations[3].category = "outliers"
    /\ ret.recommendations[3].priority = "low"
    /\ DetailPlace(ret.outlier_analysis, ret.recommendations[3].column)
            < DetailPlace(ret.outlier_analysis, ret.recommendations[1].column)

\* Zero missing, duplicate and outlier percentages and no schema block
ZeroIssues ==
    /\ ret.missing_analysis.overall_missing_percentage = Num(0)
    /\ ret.duplicate_analysis.duplicate_percentage = Num(0)
    /\ ret.outlier_analysis.outlier_percentage = Num(0)
    /\ ret.schema_analysis = None

\* C17: for every scorer the constructor accepts, calculate_score on zero
\* percentages and no schema block returns overall_score 100.00 and the
\* grade Excellent.
C17_ZeroIssuesScore100 ==
    (ScoreReturned /\ ZeroIssues) =>
        /\ ret.result.overall_score = Num(100)
        /\ ret.result.grade = "Excellent"

\* Supporting C17: the overall score is the sum of the stored weights rounded
\* to two decimals when all four component scores are 100.
ZeroIssuesScoreIsWeightTotal ==
    (ScoreReturned /\ ZeroIssues) =>
        /\ ret.result.overall_score \in Round2(RSum4(StoredWeights(scorer[1])))
        /\ ret.result.grade = "Excellent"

\* Weights 30.008, 25, 25, 20 are stored as given, and a dataset without any
\* issue is scored 100.01.
C17_Witness ==
    /\ ScoreReturned
    /\ ZeroIssues
    /\ scorer[1].missing_weight = Frac(30008, 1000)
    /\ ret.result.overall_score = Frac(10001, 100)

\* ------------------------------------------------- outlier detector
\* The method strings given to OutlierDetector: the three it documents and two
\* it does not support
MethodArgs == Methods \cup {"zscore", "IQR"}

\* OutlierDetector.__init__ stores its arguments and validates none of them
NewOutlierDetector(method) ==
    Some([method |-> method, iqr_multiplier |-> Frac(3, 2),
          z_score_threshold |-> Num(3)])

ConstructDetector(method) ==
    /\ ret = NoReturn
    /\ detector' = NewOutlierDetector(method)
    /\ ret' = [op |-> "OutlierDetector", raised |-> None, method |-> method]
    /\ UNCHANGED <<versioning, calls, reports, scorer>>

\* The numeric columns that _analyze_column does not skip: those with at least
\* one value left after dropna()
AnalysedColumns(ds) ==
    SelectSeq(ds.columns, LAMBDA c : c.numeric /\ ds.rows - c.missing > 0)

\* OutlierDetector.analyze: the results it can return, none when it raises.
\* With a method other than iqr, z_score and both, _analyze_column computes
\* neither mask and falls into its last branch, which subscripts
\* zscore_outliers, still None: a TypeError out of the loop over the columns.
\* A column without values returns before that.
analyze_outliers(d, ds) ==
    IF d.method \notin Methods /\ AnalysedColumns(ds) # <<>>
    THEN {}
    ELSE OutlierAnalyses(ds, d.method)

AnalyzeOutliers(ds) ==
    /\ ret.op = "OutlierDetector"
    /\ detector # None
    /\ LET results == analyze_outliers(detector[1], ds)
       IN  IF results = {}
           THEN ret' = [op |-> "OutlierDetector.analyze", raised |-> Some("TypeError"),
                        ds |-> ds, method |-> detector[1].method, result |-> None]
           ELSE \E r \in results :
                    ret' = [op |-> "OutlierDetector.analyze",
                            raised |-> None, ds |-> ds,
                            method |-> detector[1].method, result |-> Some(r)]
    /\ UNCHANGED <<versioning, calls, quality>>

\* ------------------------------------------------- data frames
\* A data frame of two numeric columns, a and b, as the sequence of its rows;
\* a cell holds a value or NaN.
NaN == "nan"
CellsA == {"1", NaN}
CellsB == {"1", "2", NaN}
FrameRows == CellsA \X CellsB
Frames == UNION {[1..n -> FrameRows] : n \in 0..MaxRows}
ColumnNames == <<"a", "b">>

Count(mask) == Cardinality({i \in DOMAIN mask : mask[i]})

\* df.isnull().sum(): the nulls of a column
missing_counts(df, c) == Count([i \in DOMAIN df |-> df[i][c] = NaN])

\* df.isnull().sum(axis=1): the nulls of each row
missing_per_row(df) ==
    [i \in DOMAIN df |-> Cardinality({c \in DOMAIN ColumnNames : df[i][c] = NaN})]

\* df.duplicated(keep='first'): every occurrence of a row but its first
duplicated_keep_first(df) ==
    [i \in DOMAIN df |-> \E j \in 1..(i - 1) : df[j] = df[i]]

\* df.duplicated(keep=False): every occurrence of a row that occurs more than
\* once (pandas takes two NaN cells as equal here)
duplicated(df) ==
    [i \in DOMAIN df |-> \E j \in DOMAIN df : j # i /\ df[j] = df[i]]

\* abs(non_null_values.skew()) > 1 for a column of n values, k of them "2" and
\* the others "1": skew() is the adjusted Fisher-Pearson coefficient, NaN below
\* three values and 0 when all values are equal; its square is
\* n(n-1)(n-2k)^2 / ((n-2)^2 k(n-k)).
Skewed(df, c) ==
    LET n == Count([i \in DOMAIN df |-> df[i][c] # NaN])
        k == Count([i \in DOMAIN df |-> df[i][c] = "2"])
    IN  /\ n >= 3
        /\ 0 < k
        /\ k < n
        /\ n * (n - 1) * (n - 2 * k) * (n - 2 * k) > (n - 2) * (n - 2) * k * (n - k)

\* What the analyzers count in a frame
Describe(df) ==
    [rows |-> Len(df), columns |-> [c \in DOMAIN ColumnNames |->
                    Column(ColumnNames[c], TRUE, missing_counts(df, c), NoOutliers,
                           Skewed(df, c))],
     duplicates |-> Count(duplicated(df))]

\* read_file hands the frame of the file to the analyzers
ReadFile(df) ==
    /\ ret = NoReturn
    /\ ret' = [op |-> "read_file", df |-> df]
    /\ UNCHANGED <<versioning, calls, quality>>

\* The analyzers constructed: the default thresholds, 40 and 70, and a
\* warning threshold above the error threshold (no argument is validated)
Analyzers ==
    {DefaultAnalyzer, NewMissingValueAnalyzer(Num(40), Num(70)),
     NewMissingValueAnalyzer(Num(50), Num(10))}

\* MissingValueAnalyzer(warn_threshold, error_threshold).analyze
AnalyzeMissing(self) ==
    /\ ret.op = "read_file"
    /\ \E r \in analyze_missing(self, Describe(ret.df)) :
            ret' = [op |-> "MissingValueAnalyzer.analyze", raised |-> None,
                    result |-> Some(r), df |-> ret.df, analyzer |-> self]
    /\ UNCHANGED <<versioning, calls, quality>>

\* MissingValueAnalyzer.get_missing_patterns: the results it can return, none
\* when it raises. On a frame without rows, rows_with_missing / len(df) is a
\* numpy 0 divided by 0, NaN with a warning, and missing_per_row.max() is NaN,
\* which int() refuses with a ValueError.
get_missing_patterns(df) ==
    LET per_row == missing_per_row(df)
        rows_with_missing == Count([i \in DOMAIN df |-> per_row[i] > 0])
    IN  IF Len(df) = 0
        THEN {}
        ELSE { [rows_with_missing |-> rows_with_missing,
                rows_with_missing_percentage |-> p,
                rows_with_multiple_missing |-> Count([i \in DOMAIN df |-> per_row[i] > 1]),
                completely_empty_rows |->
                    Count([i \in DOMAIN df |-> per_row[i] = Len(ColumnNames)]),
                max_missing_per_row |->
                    CHOOSE m \in 0..Len(ColumnNames) :
                        /\ \E i \in DOMAIN df : per_row[i] = m
                        /\ \A i \in DOMAIN df : per_row[i] <= m] :
               p \in Round2(Percentage(rows_with_missing, Len(df))) }

GetMissingPatterns ==
    /\ ret.op \in {"read_file", "MissingValueAnalyzer.analyze"}
    /\ LET results == get_missing_patterns(ret.df)
       IN  IF results = {}
           THEN ret' = [op |-> "get_missing_patterns", raised |-> Some("ValueError"),
                        result |-> None, df |-> ret.df]
           ELSE \E r \in results :
                    ret' = [op |-> "get_missing_patterns", raised |-> None,
                            result |-> Some(r), df |-> ret.df]
    /\ UNCHANGED <<versioning, calls, quality>>

\* DuplicateDetector(check_full_row=True).analyze
analyze_duplicates(df) == DuplicateAnalyses(Len(df), Count(duplicated(df)))

AnalyzeDuplicates ==
    /\ ret.op \in {"read_file", "MissingValueAnalyzer.analyze", "get_missing_patterns"}
    /\ ret.op = "get_missing_patterns" => ret.raised = None
    /\ \E r \in analyze_duplicates(ret.df) :
            ret' = [op |-> "DuplicateDetector.analyze", raised |-> None,
                    result |-> Some(r), df |-> ret.df]
    /\ UNCHANGED <<versioning, calls, quality>>


\* ------------------------------------------------- analyzer views
\* C18: an unsupported method string is refused when the detector is
\* constructed, and analyze never fails for it.
C18_UnsupportedMethodRejected ==
    /\ (ret.op = "OutlierDetector" /\ ret.method \notin Methods) => ret.raised # None
    /\ ret.op = "OutlierDetector.analyze" => ret.raised = None

\* Supporting C18: no constructor call fails; analyze fails exactly when the
\* method is unsupported and some numeric column holds a value.
AnalyzeRaisesIffUnsupportedMethodUsed ==
    /\ ret.op = "OutlierDetector" => ret.raised = None
    /\ ret.op = "OutlierDetector.analyze" =>
            (ret.raised # None <=>
                (ret.method \notin Methods /\ AnalysedColumns(ret.ds) # <<>>))

\* A detector constructed with the method zscore fails while it analyses a
\* dataset with a numeric column
C18_Witness ==
    /\ ret.op = "OutlierDetector.analyze"
    /\ detector = NewOutlierDetector("zscore")
    /\ ret.ds = DsLight
    /\ ret.raised = Some("TypeError")

\* C19: on a frame without rows analyze and get_missing_patterns do not raise,
\* and the percentages they return are 0.
C19_ZeroRowsNoRaise ==
    /\ (ret.op = "MissingValueAnalyzer.analyze" /\ Len(ret.df) = 0) =>
            /\ ret.raised = None
            /\ ret.result[1].overall_missing_percentage = Num(0)
    /\ (ret.op = "get_missing_patterns" /\ Len(ret.df) = 0) =>
            /\ ret.raised = None
            /\ ret.result[1].rows_with_missing_percentage = Num(0)

\* Supporting C19: analyze returns 0 on a frame without rows, and
\* get_missing_patterns raises exactly on such a frame.
ZeroRowsAnalyzeOnly ==
    /\ (ret.op = "MissingValueAnalyzer.analyze" /\ Len(ret.df) = 0) =>
            /\ ret.raised = None
            /\ ret.result[1].overall_missing_percentage = Num(0)
    /\ ret.op = "get_missing_patterns" => (ret.raised # None <=> Len(ret.df) = 0)

C19_Witness ==
    /\ ret.op = "get_missing_patterns"
    /\ ret.df = <<>>
    /\ ret.raised = Some("ValueError")

\* C20: analyze reports as total_duplicates the rows that have another
\* identical row, as unique_rows the rows that have none, and the two add up
\* to total_rows.
C20_AllOccurrencesCounted ==
    ret.op = "DuplicateDetector.analyze" =>
        LET df == ret.df
            r == ret.result[1]
            Same(i) == {j \in DOMAIN df : j # i /\ df[j] = df[i]}
        IN  /\ r.total_duplicates = Cardinality({i \in DOMAIN df : Same(i) # {}})
            /\ r.unique_rows = Cardinality({i \in DOMAIN df : Same(i) = {}})
            /\ r.total_duplicates + r.unique_rows = r.total_rows
            /\ r.total_rows = Len(df)

\* Three rows, two of them identical (NaN cells included): both occurrences
\* are counted
C20_Witness ==
    /\ ret.op = "DuplicateDetector.analyze"
    /\ ret.df = << <<"1", NaN>>, <<NaN, "2">>, <<"1", NaN>> >>
    /\ ret.result[1].total_duplicates = 2
    /\ ret.result[1].unique_rows = 1

\* ------------------------------------------------- missing-value views
\* The severity the claim gives to a percentage under the two thresholds
SeverityOf(percentage, warn_threshold, error_threshold) ==
    IF RLe(error_threshold, percentage) THEN "high"
    ELSE IF RLe(warn_threshold, percentage) /\ RLt(percentage, error_threshold)
         THEN "medium"
    ELSE "low"

MissingAnalysed == ret.op = "MissingValueAnalyzer.analyze"

\* C21: the severity of every detail of an analysis is the one its
\* percentage has under the thresholds of the analyzer, every analysis of
\* the same frame by the same analyzer gives the same severities, and the
\* recommendation is drop_column exactly when the severity is high.
C21_SeverityFromPercentage ==
    MissingAnalysed =>
        LET details == ret.result[1].details
            Severities(r) == [i \in DOMAIN r.details |->
                                <<r.details[i].column, r.details[i].severity>>]
        IN  /\ \A i \in DOMAIN details :
                /\ details[i].severity =
                        SeverityOf(details[i].missing_percentage,
                                   ret.analyzer.warn_threshold,
                                   ret.analyzer.error_threshold)
                /\ details[i].recommendation = "drop_column"
                        <=> details[i].severity = "high"
            /\ \A again \in analyze_missing(ret.analyzer, Describe(ret.df)) :
                    Severities(again) = Severities(ret.result[1])

\* Thresholds 40 and 70 on a frame of three rows: column a, a third missing,
\* is low; column b, all missing, is high and to be dropped.
C21_Witness ==
    /\ MissingAnalysed
    /\ ret.analyzer = NewMissingValueAnalyzer(Num(40), Num(70))
    /\ Len(ret.df) = 3
    /\ \E i, j \in DOMAIN ret.result[1].details :
            /\ ret.result[1].details[i].column = "a"
            /\ ret.result[1].details[i].severity = "low"
            /\ ret.result[1].details[i].recommendation # "drop_column"
            /\ ret.result[1].details[j].missing_percentage = Num(100)
            /\ ret.result[1].details[j].severity = "high"
            /\ ret.result[1].details[j].recommendation = "drop_column"

\* C22: total_missing is the sum of the null counts of the columns of the
\* frame, the details are exactly the columns with a null (total_cells counts
\* every column), they are sorted by percentage descending, and
\* summary.worst_column is the first of them.
C22_TotalsAndSortedDetails ==
    MissingAnalysed =>
        LET df == ret.df
            r == ret.result[1]
            Nulls(c) == Cardinality({i \in DOMAIN df : df[i][c] = NaN})
        IN  /\ r.total_missing =
                    Cardinality({<<i, c>> \in (DOMAIN df) \X (DOMAIN ColumnNames) :
                                    df[i][c] = NaN})
            /\ r.total_cells = Len(df) * Len(ColumnNames)
            /\ {r.details[i].column : i \in DOMAIN r.details} =
                    {ColumnNames[c] : c \in {c \in DOMAIN ColumnNames : Nulls(c) > 0}}
            /\ Len(r.details) =
                    Cardinality({c \in DOMAIN ColumnNames : Nulls(c) > 0})
            /\ \A c \in DOMAIN ColumnNames, i \in DOMAIN r.details :
                    r.details[i].column = ColumnNames[c] =>
                        r.details[i].missing_count = Nulls(c)
            /\ \A i, j \in DOMAIN r.details :
                    i < j => RLe(r.details[j].missing_percentage,
                                 r.details[i].missing_percentage)
            /\ r.summary.worst_column =
                    IF r.details = <<>> THEN None ELSE Some(r.details[1].column)

\* Column a has one null among three rows and column b two: b comes first
\* and is the worst column, and column totals count both.
C22_Witness ==
    /\ MissingAnalysed
    /\ Len(ret.df) = 3
    /\ ret.result[1].total_missing = 3
    /\ ret.result[1].total_cells = 6
    /\ Len(ret.result[1].details) = 2
    /\ ret.result[1].details[1].column = "b"
    /\ ret.result[1].details[2].column = "a"
    /\ ret.result[1].summary.worst_column = Some("b")

\* ------------------------------------------------- remove_duplicates
\* The detectors constructed: full rows or not, with or without key columns
DuplicateDetectors ==
    {[check_full_row |-> full, key_columns |-> keys] :
        full \in BOOLEAN, keys \in {None, Some(<<"a">>)}}

KeepArgs == {"first", "last", "False"}

\* df.drop_duplicates(subset, keep): of the rows equal on the subset columns
\* the first, the last or none is kept
drop_duplicates(df, subset, keep) ==
    LET Same(i, j) == \A c \in subset : df[i][c] = df[j][c]
        Kept(i) == CASE keep = "first" -> ~\E j \in 1..(i - 1) : Same(i, j)
                     [] keep = "last" -> ~\E j \in (i + 1)..Len(df) : Same(i, j)
                     [] OTHER -> ~\E j \in DOMAIN df : j # i /\ Same(i, j)
        kept == {i \in DOMAIN df : Kept(i)}
        Place(p) == CHOOSE i \in kept : Cardinality({j \in kept : j <= i}) = p
    IN  [p \in 1..Cardinality(kept) |-> df[Place(p)]]

\* The columns remove_duplicates compares, none when the detector checks
\* neither full rows nor key columns
SubsetOf(self) ==
    IF self.check_full_row THEN Some(DOMAIN ColumnNames)
    ELSE IF self.key_columns # None /\ self.key_columns[1] # <<>>
    THEN Some({c \in DOMAIN ColumnNames :
                \E k \in DOMAIN self.key_columns[1] :
                    self.key_columns[1][k] = ColumnNames[c]})
    ELSE None

\* The outcome of a remove or clip call of a detector: the caller's frame
\* before (input) and after (df) the call, the frame returned, and whether
\* the frame returned is the caller's frame object itself.
Outcome(op, self, inplace, input, df, result, result_is_df) ==
    [detector |-> self, op |-> op, result |-> result, df |-> df,
     inplace |-> inplace, input |-> input, result_is_df |-> result_is_df]

\* DuplicateDetector.remove_duplicates: with inplace the rows are dropped
\* from df and df is returned; without, drop_duplicates returns a new frame,
\* and a detector that checks nothing returns df itself.
remove_duplicates(self, df, keep, inplace) ==
    LET subset == SubsetOf(self)
        dropped == IF subset = None THEN df ELSE drop_duplicates(df, subset[1], keep)
    IN  IF inplace
        THEN Outcome("remove_duplicates", self, inplace, df, dropped, dropped, TRUE)
        ELSE Outcome("remove_duplicates", self, inplace, df, df, dropped, subset = None)

RemoveDuplicates(self, keep, inplace) ==
    /\ ret.op = "read_file"
    /\ ret' = remove_duplicates(self, ret.df, keep, inplace)
    /\ UNCHANGED <<versioning, calls, quality>>

\* ------------------------------------------------- remove and clip outliers
\* A frame of one numeric column x, as the sequence of its rows; a row keeps
\* its index label when other rows are dropped.
CellValues == {None, Some(Num(1)), Some(Num(2))}

NumericFrames ==
    UNION {{[i \in 1..n |-> [x |-> cells[i], index |-> i]] : cells \in [1..n -> CellValues]} :
            n \in 0..MaxValues}

\* df[column].dropna(): the values of the column
dropna(df) ==
    LET rows == SelectSeq(df, LAMBDA r : r.x # None)
    IN  [i \in DOMAIN rows |-> rows[i].x[1]]

Sorted(values) ==
    LET n == Len(values)
        rank(i) == Cardinality({j \in 1..n : \/ RLt(values[j], values[i])
                                             \/ values[j] = values[i] /\ j < i}) + 1
    IN  [p \in 1..n |-> values[CHOOSE i \in 1..n : rank(i) = p]]

\* data.quantile(quarters / 4) of a series with values: linear interpolation
\* between the two order statistics around position (n - 1) * quarters / 4
quantile(values, quarters) ==
    LET s == Sorted(values)
        position == (Len(values) - 1) * quarters
        low == position \div 4
        part == position % 4
    IN  IF part = 0 THEN s[low + 1]
        ELSE RAdd(s[low + 1], RMul(Frac(part, 4), RSub(s[low + 2], s[low + 1])))

RECURSIVE RSumSeq(_)
RSumSeq(seq) == IF seq = <<>> THEN Num(0) ELSE RAdd(Head(seq), RSumSeq(Tail(seq)))

mean(values) == RDiv(RSumSeq(values), Num(Len(values)))

\* data.std() squared: the sample variance
variance(values) ==
    LET m == mean(values)
    IN  RDiv(RSumSeq([i \in DOMAIN values |-> RMul(RSub(values[i], m), RSub(values[i], m))]),
             Num(Len(values) - 1))

\* get_outlier_bounds. With iqr or both the bounds are Q1 - k IQR and
\* Q3 + k IQR, NaN when the column has no value. With any other method they
\* are mean -+ threshold * std, kept here as the mean and the square of the
\* distance (std is no rational), NaN when the column has fewer than two
\* values.
get_outlier_bounds(self, df) ==
    LET values == dropna(df)
    IN  IF self.method \in {"iqr", "both"}
        THEN IF values = <<>> THEN [kind |-> "nan"]
             ELSE LET Q1 == quantile(values, 1)
                      Q3 == quantile(values, 3)
                      IQR == RSub(Q3, Q1)
                  IN  [kind |-> "iqr",
                       lower_bound |-> RSub(Q1, RMul(self.iqr_multiplier, IQR)),
                       upper_bound |-> RAdd(Q3, RMul(self.iqr_multiplier, IQR))]
        ELSE IF Len(values) < 2 THEN [kind |-> "nan"]
             ELSE [mean |-> mean(values), kind |-> "std",
                   distance2 |-> RMul(RMul(self.z_score_threshold, self.z_score_threshold),
                                      variance(values))]

\* value < lower_bound and value > upper_bound; every comparison with a NaN
\* bound is false
BelowLower(bounds, value) ==
    CASE bounds.kind = "iqr" -> RLt(value, bounds.lower_bound)
      [] bounds.kind = "std" ->
            /\ RLt(value, bounds.mean)
            /\ RLt(bounds.distance2,
                   RMul(RSub(bounds.mean, value), RSub(bounds.mean, value)))
      [] OTHER -> FALSE

AboveUpper(bounds, value) ==
    CASE bounds.kind = "iqr" -> RLt(bounds.upper_bound, value)
      [] bounds.kind = "std" ->
            /\ RLt(bounds.mean, value)
            /\ RLt(bounds.distance2,
                   RMul(RSub(value, bounds.mean), RSub(value, bounds.mean)))
      [] OTHER -> FALSE

\* value >= lower_bound and value <= upper_bound
WithinBounds(bounds, value) ==
    /\ bounds.kind # "nan"
    /\ ~BelowLower(bounds, value)
    /\ ~AboveUpper(bounds, value)

\* The rows of (df[column] < lower_bound) | (df[column] > upper_bound): a
\* null cell compares false
OutsideRow(bounds, row) ==
    /\ row.x # None
    /\ BelowLower(bounds, row.x[1]) \/ AboveUpper(bounds, row.x[1])

\* The rows of (df[column] >= lower_bound) & (df[column] <= upper_bound)
InsideRow(bounds, row) ==
    /\ row.x # None
    /\ WithinBounds(bounds, row.x[1])

\* OutlierDetector.remove_outliers: with inplace the rows outside the bounds
\* are dropped from df; without, a new frame of the rows inside the bounds is
\* returned.
remove_outliers(self, df, inplace) ==
    LET bounds == get_outlier_bounds(self, df)
    IN  IF inplace
        THEN LET remaining == SelectSeq(df, LAMBDA row : ~OutsideRow(bounds, row))
             IN  Outcome("remove_outliers", self, inplace, df, remaining, remaining, TRUE)
        ELSE Outcome("remove_outliers", self, inplace, df, df,
                     SelectSeq(df, LAMBDA row : InsideRow(bounds, row)), FALSE)

\* Series.clip(lower, upper): a value outside takes the bound (for the std
\* bounds the bound is kept as the record of the bounds and its side); a null
\* cell stays null and a NaN bound clips nothing
clip(bounds, cell) ==
    IF cell = None THEN cell
    ELSE IF BelowLower(bounds, cell[1])
    THEN Some(IF bounds.kind = "iqr" THEN bounds.lower_bound
              ELSE <<"lower_bound", bounds>>)
    ELSE IF AboveUpper(bounds, cell[1])
    THEN Some(IF bounds.kind = "iqr" THEN bounds.upper_bound
              ELSE <<"upper_bound", bounds>>)
    ELSE cell

\* OutlierDetector.clip_outliers: with inplace the column of df is replaced;
\* without, the column of a copy of df.
clip_outliers(self, df, inplace) ==
    LET bounds == get_outlier_bounds(self, df)
        clipped == [i \in DOMAIN df |-> [df[i] EXCEPT !.x = clip(bounds, @)]]
    IN  IF inplace
        THEN Outcome("clip_outliers", self, inplace, df, clipped, clipped, TRUE)
        ELSE Outcome("clip_outliers", self, inplace, df, df, clipped, FALSE)

RemoveOutliers(df, inplace) ==
    /\ ret.op = "OutlierDetector"
    /\ detector # None
    /\ ret' = remove_outliers(detector[1], df, inplace)
    /\ UNCHANGED <<versioning, calls, quality>>

ClipOutliers(df, inplace) ==
    /\ ret.op = "OutlierDetector"
    /\ detector # None
    /\ ret' = clip_outliers(detector[1], df, inplace)
    /\ UNCHANGED <<versioning, calls, quality>>


\* ------------------------------------------------- frame-effect views
AnalyzeOps ==
    {"MissingValueAnalyzer.analyze", "get_missing_patterns", "DuplicateDetector.analyze"}

RemoveOps == {"remove_duplicates", "remove_outliers", "clip_outliers"}

\* C23: an analysis leaves the caller's frame as it was, and a remove or clip
\* call without inplace leaves it as it was and returns a frame that is not
\* the caller's.
C23_NoSilentMutation ==
    [][/\ ret'.op \in AnalyzeOps => ret'.df = ret.df
       /\ (ret'.op \in RemoveOps /\ ~ret'.inplace) =>
                /\ ret'.df = ret'.input
                /\ ~ret'.result_is_df]_vars

\* Supporting C23: the caller's frame changes in no analysis and in no call
\* without inplace; the frame returned without inplace is the caller's own
\* exactly for remove_duplicates of a detector that checks neither full rows
\* nor key columns.
FrameChangesOnlyInplace ==
    [][/\ ret'.op \in AnalyzeOps => ret'.df = ret.df
       /\ (ret'.op \in RemoveOps /\ ~ret'.inplace) =>
                /\ ret'.df = ret'.input
                /\ ret'.result_is_df <=>
                        /\ ret'.op = "remove_duplicates"
                        /\ SubsetOf(ret'.detector) = None]_vars

\* remove_duplicates without inplace, of a detector that checks nothing, on a
\* frame with two identical rows: the caller's frame itself is returned
C23_Witness ==
    /\ ret.op = "remove_duplicates"
    /\ ~ret.inplace
    /\ ret.detector = [check_full_row |-> FALSE, key_columns |-> None]
    /\ ret.input = << <<"1", "2">>, <<"1", "2">> >>
    /\ ret.df = ret.input
    /\ ret.result_is_df

\* C29: remove_outliers leaves the same rows with and without inplace.
C29_InplaceSameRows ==
    ret.op = "remove_outliers" =>
        Range(remove_outliers(ret.detector, ret.input, TRUE).result)
            = Range(remove_outliers(ret.detector, ret.input, FALSE).result)

HasNull(df) == \E i \in DOMAIN df : df[i].x = None

\* Supporting C29: the two calls leave the same rows when the column has no
\* null cell and the bounds are numbers; with inplace every row with a null
\* cell stays, without inplace none does.
InplaceSameRowsWithoutNulls ==
    ret.op = "remove_outliers" =>
        LET dropped == remove_outliers(ret.detector, ret.input, TRUE).result
            selected == remove_outliers(ret.detector, ret.input, FALSE).result
        IN  /\ (~HasNull(ret.input)
                    /\ get_outlier_bounds(ret.detector, ret.input).kind # "nan")
                    => Range(dropped) = Range(selected)
            /\ Range(selected) \subseteq Range(dropped)
            /\ \A i \in DOMAIN ret.input :
                    ret.input[i].x = None =>
                        /\ ret.input[i] \in Range(dropped)
                        /\ ret.input[i] \notin Range(selected)

\* Values 1, 1, 1, 2 and a null cell under the iqr method: 2 is outside the
\* bounds and dropped by both calls; the row of the null cell stays with
\* inplace and is not in the frame returned without.
C29_Witness ==
    /\ ret.op = "remove_outliers"
    /\ ret.detector.method = "iqr"
    /\ ret.inplace
    /\ Len(ret.input) = 5
    /\ ret.input[4].x = Some(Num(2))
    /\ ret.input[5].x = None
    /\ {r.index : r \in Range(ret.result)} = {1, 2, 3, 5}
    /\ {r.index : r \in Range(remove_outliers(ret.detector, ret.input, FALSE).result)}
            = {1, 2, 3}

\* ------------------------------------------------- analyzer specification
AnalyzerNext ==
    \/ \E method \in MethodArgs : ConstructDetector(method)
    \/ \E ds \in Datasets : AnalyzeOutliers(ds)
    \/ \E df \in Frames : ReadFile(df)
    \/ \E self \in Analyzers : AnalyzeMissing(self)
    \/ GetMissingPatterns
    \/ AnalyzeDuplicates
    \/ \E self \in DuplicateDetectors, keep \in KeepArgs, inplace \in BOOLEAN :
            RemoveDuplicates(self, keep, inplace)
    \/ \E df \in NumericFrames, inplace \in BOOLEAN : RemoveOutliers(df, inplace)
    \/ \E df \in NumericFrames, inplace \in BOOLEAN : ClipOutliers(df, inplace)

AnalyzerSpec == Init /\ [][AnalyzerNext]_vars
\* ------------------------------------------- foreign metadata files
\* The baseline directory can hold *_metadata.json files that
\* create_baseline_version did not write.  A version id is then any text:
\* a sequence of characters.
Alphabet == {"x", "v", "_", "1"}

Texts == UNION {[1..k -> Alphabet] : k \in 0..MaxIdLen}

\* str.split(sep) for a one-character separator, scanning from position i
RECURSIVE SplitFrom(_, _, _, _)
SplitFrom(s, sep, i, parts) ==
    IF i > Len(s) THEN parts
    ELSE IF s[i] = sep THEN SplitFrom(s, sep, i + 1, Append(parts, <<>>))
    ELSE SplitFrom(s, sep, i + 1, [parts EXCEPT ![Len(parts)] = Append(@, s[i])])

split(s, sep) == SplitFrom(s, sep, 1, << <<>> >>)

\* str.replace(old, '') for a one-character old
replace(s, old) == SelectSeq(s, LAMBDA c : c # old)

DigitChars == {ToString(k) : k \in 0..9}

DigitValue(c) == CHOOSE k \in 0..9 : ToString(k) = c

\* int(s) raises ValueError unless s is a numeral.  (Signs, blanks and
\* digit-group underscores, which int also accepts, are not in Alphabet or
\* do not survive the split.)
IsNumeral(s) == s # <<>> /\ \A i \in DOMAIN s : s[i] \in DigitChars

RECURSIVE int(_)
int(s) == IF s = <<>> THEN 0
          ELSE 10 * int(SubSeq(s, 1, Len(s) - 1)) + DigitValue(s[Len(s)])

\* str(n) for a natural number n
RECURSIVE Decimal(_)
Decimal(n) == IF n < 10 THEN <<ToString(n)>>
              ELSE Decimal(n \div 10) \o <<ToString(n % 10)>>

\* settings.BASELINE_VERSION_PREFIX = "baseline_v"
BASELINE_VERSION_PREFIX == <<"b", "a", "s", "e", "l", "i", "n", "e", "_", "v">>

\* The text f"{BASELINE_VERSION_PREFIX}{version_number}_{date_str}" of a
\* version id that FormatVersionId built.
TextOf(version_id) ==
    BASELINE_VERSION_PREFIX \o Decimal(version_id[2][2]) \o <<"_">> \o Decimal(version_id[3])

\* The k-th foreign metadata file of the directory.
ForeignFile(k) == <<"foreign", <<"f", k>>, 0>>

IsForeign(f) == f[1] = "foreign"

\* The documents json.load can return for a foreign file: an object with a
\* version id text, an object without the key "version_id", an object whose
\* version id is a number or null, and a document that is not an object.
ForeignDocuments ==
    {[fields |-> [version_id |-> <<"str", s>>], type |-> "dict"] : s \in Texts}
    \cup {[fields |-> [description |-> "backup"], type |-> "dict"],
          [fields |-> [version_id |-> <<"int", 1>>], type |-> "dict"],
          [fields |-> [version_id |-> <<"null">>], type |-> "dict"],
          [type |-> "list"]}

\* Contents of a foreign file: a document, or text json.load rejects.
ForeignContents == {None} \cup {Some(d) : d \in ForeignDocuments}

\* What json.load returns for the readable metadata file f of m.
Document(m, f) ==
    IF IsForeign(f) THEN m[f][1]
    ELSE [fields |-> [m[f][1] EXCEPT !.version_id = <<"str", TextOf(@)>>],
          type |-> "dict"]

Raised(exception) == [raised |-> Some(exception)]

Value(v) == [raised |-> None, value |-> v]

\* VersioningManager.list_baseline_versions over any directory: unreadable
\* files are skipped inside the try; the sort after the loop calls
\* x.get('created_at', '') on every document, which raises AttributeError
\* for a document that is not an object.  The foreign objects have no
\* created_at, so they sort (stably) after the records create wrote.
list_baseline_versions_any(m, glob) ==
    LET readable == SelectSeq(glob, LAMBDA f : m[f] # None)
        own == SelectSeq(readable, LAMBDA f : ~IsForeign(f))
        foreign == SelectSeq(readable, LAMBDA f : IsForeign(f))
        records == SortDesc([i \in DOMAIN own |-> m[own[i]][1]], "created_at")
        sorted == [i \in DOMAIN records |->
                        [fields |-> [records[i] EXCEPT !.version_id = <<"str", TextOf(@)>>],
                         type |-> "dict"]]
                  \o [i \in DOMAIN foreign |-> m[foreign[i]][1]]
    IN IF \E i \in DOMAIN sorted : sorted[i].type # "dict"
       THEN Raised("AttributeError")
       ELSE Value(sorted)

\* The body of the loop of get_next_version_number for one listed version:
\* version['version_id'] raises KeyError without the key, .split raises
\* AttributeError on a value that is no string; IndexError (no second part)
\* and ValueError (no numeral) are caught and the version is skipped.
version_num(version) ==
    IF "version_id" \notin DOMAIN version.fields THEN Raised("KeyError")
    ELSE IF version.fields.version_id[1] # "str" THEN Raised("AttributeError")
    ELSE LET parts == split(version.fields.version_id[2], "_")
         IN IF Len(parts) < 2 \/ ~IsNumeral(replace(parts[2], "v")) THEN Value(None)
            ELSE Value(Some(int(replace(parts[2], "v"))))

\* VersioningManager.get_next_version_number over any directory
get_next_version_number_any(m, glob) ==
    LET listed == list_baseline_versions_any(m, glob)
    IN IF listed.raised # None THEN listed
       ELSE LET existing_versions == listed.value
                nums == [i \in DOMAIN existing_versions |-> version_num(existing_versions[i])]
                raising == {i \in DOMAIN nums : nums[i].raised # None}
                version_numbers == {nums[i].value[1] :
                                       i \in {j \in DOMAIN nums : nums[j].value # None}}
            IN IF existing_versions = <<>> THEN Value(1)
               ELSE IF raising # {}
                    THEN nums[CHOOSE i \in raising : \A j \in raising : i <= j]
                    ELSE Value(Max(version_numbers \cup {0}) + 1)

\* A metadata file that create did not write appears in the directory
\* (a restored backup, a file of another tool).
PlaceForeign(content) ==
    /\ calls = 0
    /\ frame[Caller].pc = "idle"
    /\ Cardinality({f \in DOMAIN meta : IsForeign(f)}) < MaxForeign
    /\ meta' = WriteFile(meta,
                         ForeignFile(Cardinality({f \in DOMAIN meta : IsForeign(f)}) + 1),
                         content)
    /\ ret' = NoReturn
    /\ UNCHANGED <<data, frame, last_assigned, deleted, calls, passed>>

\* A call of get_next_version_number; an exception propagates to the caller.
GetNextVersionNumber ==
    /\ frame[Caller].pc = "idle"
    /\ \E glob \in GlobOrders(meta) :
          LET next == get_next_version_number_any(meta, glob)
          IN ret' = [op |-> "get_next_version_number",
                     raised |-> next.raised,
                     value |-> IF next.raised = None THEN Some(next.value) ELSE None]
    /\ UNCHANGED <<meta, data, frame, last_assigned, deleted, calls, passed>>

\* create_baseline_version, line 76, over any directory: an exception of
\* get_next_version_number is caught by the except branch of line 113.
CreateScanAny(p, source_file_path, metadata, max_calls) ==
    /\ frame[p].pc = "idle"
    /\ calls < max_calls
    /\ calls' = calls + 1
    /\ \E glob \in GlobOrders(meta) :
          LET next == get_next_version_number_any(meta, glob)
          IN IF next.raised # None
             THEN /\ frame' = [frame EXCEPT ![p] = Returned(p)]
                  /\ ret' = CreateFailed
             ELSE /\ frame' = [frame EXCEPT ![p] =
                        [metadata |-> metadata,
                         version_number |-> next.value,
                         pc |-> "numbered",
                         source_file_path |-> source_file_path]]
                  /\ ret' = NoReturn
    /\ UNCHANGED <<meta, data, last_assigned, deleted, passed>>

\* A directory with foreign files, one caller, no I/O faults, and a clock
\* that stands still (the date does not enter the version number).
ForeignNext ==
    /\ \/ \E content \in ForeignContents : PlaceForeign(content)
       \/ GetNextVersionNumber
       \/ \E u \in {v \in Uploads : v.file.name = "a.csv"} :
               CreateScanAny(Caller, u.file, u.metadata, MaxForeignCalls)
       \/ CreateCopy(Caller, DateStr(0), TRUE)
       \/ CreateOpen(Caller, 0, TRUE)
       \/ CreateDump(Caller)
    /\ UNCHANGED quality

ForeignSpec == Init /\ [][ForeignNext]_vars

\* The version id texts of the form prefix + number + '_' + date.
WellFormed(s) ==
    LET parts == split(s, "_")
    IN /\ Len(parts) = 3
       /\ parts[1] = SubSeq(BASELINE_VERSION_PREFIX, 1, 8)
       /\ Len(parts[2]) > 1 /\ parts[2][1] = "v" /\ IsNumeral(Tail(parts[2]))
       /\ IsNumeral(parts[3])

\* The readable documents of the directory m.
Documents(m) == {Document(m, f) : f \in {g \in DOMAIN m : m[g] # None}}

HasVersionIdText(d) ==
    d.type = "dict" /\ "version_id" \in DOMAIN d.fields /\ d.fields.version_id[1] = "str"

\* The version numbers of the documents with a well-formed version id.
WellFormedNumbers(m) ==
    {int(Tail(split(d.fields.version_id[2], "_")[2])) :
        d \in {e \in Documents(m) : HasVersionIdText(e) /\ WellFormed(e.fields.version_id[2])}}

\* C24: get_next_version_number skips every record whose version id is not
\* of the form prefix + number + date: it does not raise, a create that calls
\* it does not fail, and the result is one more than the largest number of
\* the well-formed records (1 when every record is skipped).
C24_ForeignRecordsSkipped ==
    /\ ret.op = "get_next_version_number" =>
            /\ ret.raised = None
            /\ ret.value = Some(Max(WellFormedNumbers(meta) \cup {0}) + 1)
    /\ ret.op = "create" => ret.ok

\* What the code does tolerate: when every readable document is an object
\* whose version id is a text, the call does not raise, and the result is 1
\* when no text has a second '_'-separated part that is a numeral once its
\* 'v' characters are removed.
StringIdsNeverRaise ==
    (ret.op = "get_next_version_number" /\ \A d \in Documents(meta) : HasVersionIdText(d)) =>
        /\ ret.raised = None
        /\ (\A d \in Documents(meta) :
                LET parts == split(d.fields.version_id[2], "_")
                IN Len(parts) < 2 \/ ~IsNumeral(replace(parts[2], "v")))
            => ret.value = Some(1)

\* A foreign object without the key "version_id" is the only file of the
\* directory, and the create returned (False, error_msg, {}).
C24_Witness ==
    /\ ret.op = "create" /\ ~ret.ok
    /\ DOMAIN meta = {ForeignFile(1)}
    /\ meta[ForeignFile(1)] = Some([fields |-> [description |-> "backup"], type |-> "dict"])

\* The foreign version id "x_1" is counted as version 1: the next number is 2.
ForeignIdCounted ==
    /\ ret.op = "get_next_version_number"
    /\ ret.value = Some(2)
    /\ DOMAIN meta = {ForeignFile(1)}
    /\ meta[ForeignFile(1)] =
            Some([fields |-> [version_id |-> <<"str", <<"x", "_", "1">>>>], type |-> "dict"])

\* ------------------------------------------- validate_dataframe
\* settings.ValidationThresholds
MIN_ROWS == 10
MIN_COLUMNS == 1
WARN_MISSING_PERCENTAGE == 50

\* Column labels of an uploaded frame: read_csv gives str labels, read_json
\* turns numeric keys into int labels.
Labels == {StrLabel("a"), StrLabel("b"), IntLabel(1)}

\* Null cells of a column of a frame with the given number of rows: none,
\* more than half, all.
NullCounts(rows) == {0, rows \div 2 + 1, rows} \cap (0..rows)

\* The frames read_file returns, as far as validate_dataframe looks at
\* them: the number of rows and, per column, the dtype and the null cells.
ValidationFrames ==
    UNION {UNION {{[rows |-> n, columns |-> cols] :
                        cols \in [S -> [dtype : {"int64", "float64"}, nulls : NullCounts(n)]]} :
                    S \in SUBSET Labels} :
            n \in 0..MaxValidateRows}

\* The source_metadata of stored baselines, as json.load returns them.
StoredMetadata ==
    {JsonRoundTrip(md) : md \in {MdStr, MdInt,
                                   Metadata(10, <<StrLabel("a"), IntLabel(1)>>, "float64")}}

\* ', '.join(labels) raises TypeError when a label is not a str.
JoinRaises(labels) == \E c \in labels : c[1] # "str"

\* FileHandler.validate_dataframe.  expected_columns and expected_dtypes
\* are None or Some(value); the lists of the report are given by the kinds
\* of their entries, in the order of the checks.
validate_dataframe(df, expected_columns, expected_dtypes) ==
    LET columns == DOMAIN df.columns
        empty == df.rows = 0 \/ columns = {}
        errors == (IF df.rows < MIN_ROWS THEN <<"Insufficient rows">> ELSE <<>>)
                  \o (IF Cardinality(columns) < MIN_COLUMNS
                      THEN <<"Insufficient columns">> ELSE <<>>)
                  \o (IF empty THEN <<"DataFrame is empty">> ELSE <<>>)
        \* df.isnull().all(): true for every column of a frame without rows
        null_columns == {c \in columns : df.columns[c].nulls = df.rows}
        \* isnull().sum() / len(df) * 100 is NaN without rows, and NaN > 50 is false
        high_missing_cols ==
            {c \in columns : df.rows > 0 /\
                df.columns[c].nulls * 100 > WARN_MISSING_PERCENTAGE * df.rows}
        expected == IF expected_columns = None THEN {} ELSE Range(expected_columns[1])
        missing_cols == IF expected_columns = None THEN {} ELSE expected \ columns
        extra_cols == IF expected_columns = None THEN {} ELSE columns \ expected
        dtype_mismatches ==
            IF expected_dtypes = None THEN {}
            ELSE {c \in DOMAIN expected_dtypes[1] \cap columns :
                        df.columns[c].dtype # expected_dtypes[1][c]}
        warnings == (IF null_columns # {} THEN <<"all null">> ELSE <<>>)
                    \o (IF high_missing_cols # {} THEN <<"high missing">> ELSE <<>>)
                    \o (IF missing_cols # {} THEN <<"missing expected columns">> ELSE <<>>)
                    \o (IF extra_cols # {} THEN <<"extra columns">> ELSE <<>>)
                    \o (IF dtype_mismatches # {} THEN <<"dtype mismatches">> ELSE <<>>)
    IN IF JoinRaises(null_columns \cup high_missing_cols \cup missing_cols \cup extra_cols)
       THEN Raised("TypeError")
       ELSE [raised |-> None, errors |-> errors,
             warnings |-> warnings, is_valid |-> errors = <<>>]

\* upload_data, step 4: read_file returned the frame df.
UploadRead(df) ==
    /\ ret = NoReturn
    /\ ret' = [op |-> "upload_read", df |-> df]
    /\ UNCHANGED <<versioning, calls, quality>>

\* A direct call of validate_dataframe on the frame read.
ValidateDataframe(expected_columns, expected_dtypes) ==
    /\ ret.op = "upload_read"
    /\ ret' = [op |-> "validate_dataframe", report |-> validate_dataframe(ret.df, expected_columns, expected_dtypes),
               df |-> ret.df,
               expected_columns |-> expected_columns,
               expected_dtypes |-> expected_dtypes]
    /\ UNCHANGED <<versioning, calls, quality>>

\* upload_data, step 6 (lines 85-110): the frame is validated against the
\* latest baseline unless is_baseline is set; an invalid frame is rejected
\* with status 400, an exception of validate_dataframe reaches the handler
\* of line 185 and is answered with status 500.
UploadValidate(latest_baseline, is_baseline) ==
    /\ ret.op = "upload_read"
    /\ LET against == latest_baseline # None /\ ~is_baseline
           report == IF against
                     THEN validate_dataframe(ret.df,
                            Some(latest_baseline[1].source_metadata.column_names),
                            Some(latest_baseline[1].source_metadata.dtypes))
                     ELSE validate_dataframe(ret.df, None, None)
           status_code == IF report.raised # None THEN Some(500)
                          ELSE IF ~report.is_valid THEN Some(400)
                          ELSE None
       IN ret' = [op |-> "upload_validate", status_code |-> status_code,
                  report |-> report, df |-> ret.df,
                  expected_columns |->
                        IF against
                        THEN Some(latest_baseline[1].source_metadata.column_names)
                        ELSE None,
                  latest_baseline |-> latest_baseline, is_baseline |-> is_baseline]
    /\ UNCHANGED <<versioning, calls, quality>>

ValidateNext ==
    \/ \E df \in ValidationFrames : UploadRead(df)
    \/ \E md \in StoredMetadata : ValidateDataframe(Some(md.column_names), Some(md.dtypes))
    \/ ValidateDataframe(None, None)
    \/ \E md \in StoredMetadata, is_baseline \in BOOLEAN :
            UploadValidate(Some([source_metadata |-> md]), is_baseline)
    \/ \E is_baseline \in BOOLEAN : UploadValidate(None, is_baseline)

ValidateSpec == Init /\ [][ValidateNext]_vars

\* The frame has enough rows and columns and is not empty.
LargeEnough(df) ==
    /\ df.rows >= MIN_ROWS
    /\ Cardinality(DOMAIN df.columns) >= MIN_COLUMNS
    /\ ~(df.rows = 0 \/ DOMAIN df.columns = {})

\* C25: validate_dataframe reports is_valid = false exactly when the frame
\* has fewer than MIN_ROWS rows, fewer than MIN_COLUMNS columns or is empty;
\* column, dtype and missing-value findings only add warnings, so the upload
\* of a frame that is large enough is never rejected at the validation step.
C25_InvalidOnlyWhenTooSmall ==
    /\ ret.op = "validate_dataframe" =>
            /\ ret.report.raised = None
            /\ ret.report.is_valid = LargeEnough(ret.df)
    /\ ret.op = "upload_validate" =>
            (LargeEnough(ret.df) => ret.status_code = None)

\* The labels a warning of the returned call names: the columns without
\* values or with more than half of them missing, and the columns missing
\* from or added to the expected ones.
NamedLabels ==
    LET columns == DOMAIN ret.df.columns
        expected == IF ret.expected_columns = None THEN columns
                    ELSE Range(ret.expected_columns[1])
    IN {c \in columns : ret.df.columns[c].nulls = ret.df.rows
                         \/ ret.df.columns[c].nulls * 2 > ret.df.rows}
       \cup (expected \ columns) \cup (columns \ expected)

\* What holds for every frame: a report, when one is returned, has is_valid
\* false exactly for the frames that are too small, and no warning enters
\* is_valid; the call raises only when a label that is not a str is to be
\* named in a warning.
ReportValidIffLargeEnough ==
    ret.op \in {"validate_dataframe", "upload_validate"} =>
        /\ ret.report.raised = None =>
                /\ ret.report.is_valid = LargeEnough(ret.df)
                /\ ret.op = "upload_validate" =>
                        (ret.status_code = None <=> LargeEnough(ret.df))
        /\ ret.report.raised # None <=> \E c \in NamedLabels : c[1] # "str"

\* An upload of 10 rows whose only column, labelled 1, has 6 null cells is
\* validated without a baseline and answered with status 500.
C25_Witness ==
    /\ ret.op = "upload_validate"
    /\ ret.latest_baseline = None
    /\ ret.df.rows = 10
    /\ DOMAIN ret.df.columns = {IntLabel(1)}
    /\ ret.df.columns[IntLabel(1)].nulls = 6
    /\ ret.status_code = Some(500)

\* ------------------------------------------------------- C26
\* The creates that have built their version id and not yet returned.
Building == {p \in Procs : frame[p].pc \in {"copied", "opened", "unlinked"}}

\* C26: two creates with the same version number on the same date build the
\* same version id, hence the same metadata file.  The one that opens the
\* file after the other returned success truncates the other's record, the
\* one that writes after the other returned success overwrites it; it
\* returns success all the same, no second metadata file appears, and the
\* record under the id is then not the one of the other create's metadata.
C26_LostUpdate ==
    [][\A p \in Procs :
        /\ \A q \in Building :
                (/\ p \in Building
                 /\ frame[p].version_number = frame[q].version_number
                 /\ frame[p].version_id[3] = frame[q].version_id[3])
                => frame[p].version_id = frame[q].version_id
        /\ (/\ frame[p].pc = "copied"
            /\ frame'[p].pc = "opened"
            /\ frame[p].version_id \in DOMAIN passed)
           => /\ get_baseline_by_version(meta', frame[p].version_id) = None
              /\ DOMAIN meta' = DOMAIN meta
        /\ (/\ frame[p].pc = "opened"
            /\ frame'[p].pc \notin {"opened", "unlinked"}
            /\ JsonSerializable(frame[p].baseline_info.source_metadata))
           => /\ ret' = [op |-> "create", ok |-> TRUE,
                         baseline_info |-> frame[p].baseline_info]
              /\ DOMAIN meta' = DOMAIN meta
              /\ (/\ frame[p].version_id \in DOMAIN passed
                  /\ passed[frame[p].version_id] # frame[p].baseline_info.source_metadata)
                 => LET after == get_baseline_by_version(meta', frame[p].version_id)
                    IN \/ after = None
                       \/ after[1].source_metadata
                            # JsonRoundTrip(passed[frame[p].version_id])]_vars

\* The caller's create of a.csv and the script's create of b.json have both
\* returned success under the same version id (both data files are there,
\* nothing was deleted), and the one record under that id is the script's.
C26_Witness ==
    /\ frame[Caller].pc = "idle" /\ frame[Script].pc = "exited"
    /\ calls = 1 /\ deleted = {}
    /\ ret.op = "create" /\ ret.ok
    /\ \E v \in DOMAIN meta :
        /\ DOMAIN meta = {v}
        /\ DOMAIN data = {<<v, ".csv">>, <<v, ".json">>}
        /\ meta[v] # None
        /\ meta[v][1].original_filename = "b.json"
        /\ passed[v] = MdInt

\* ------------------------------------------------------- C27
\* The process running the create of p is killed between two file-system
\* operations: the files stay as they are and the call never returns.
Crash(p) ==
    /\ frame[p].pc \in {"numbered", "copied", "opened"}
    /\ ret' = [version_number |-> frame[p].version_number, pc |-> frame[p].pc,
               op |-> "crash"]
    /\ frame' = [frame EXCEPT ![p] = Returned(p)]
    /\ UNCHANGED <<meta, data, last_assigned, deleted, calls, passed>>

\* One caller whose creates can fail at a file-system call or be
\* interrupted; nothing is deleted.
CrashNext ==
    /\ \/ Create(Caller, TRUE, MaxCrashCalls)
       \/ Crash(Caller)
    /\ UNCHANGED quality

CrashSpec == Init /\ [][CrashNext]_vars

\* The data files that no readable metadata record names.
Orphans == {f \in DOMAIN data : \A r \in ReadableInfos(meta) : r.baseline_path # f}

\* C27: at every point of a run of creates, interrupted or not, every
\* baseline with a readable metadata record has its data file, holding the
\* file that create copied; what an interrupted create leaves behind is not
\* listed, and the create that follows it is assigned its version number.
C27_DataBeforeMetadata ==
    /\ [](\A r \in ReadableInfos(meta) :
            /\ r.baseline_path \in DOMAIN data
            /\ data[r.baseline_path] = r.original_filename)
    /\ [][/\ ret'.op = "crash" =>
                \A glob \in GlobOrders(meta') :
                    /\ list_baseline_versions(meta', glob) = list_baseline_versions(meta, glob)
                    /\ get_latest_baseline(meta', glob) = get_latest_baseline(meta, glob)
                    /\ get_next_version_number(meta', glob) = ret'.version_number
          /\ (ret.op = "crash" /\ frame'[Caller].pc = "numbered")
                => frame'[Caller].version_number = ret.version_number]_vars

\* A create was interrupted after its copy: the data file of version 1 is
\* there without a metadata file, and the next create is numbered 1 again.
C27_Witness ==
    /\ frame[Caller].pc = "numbered"
    /\ frame[Caller].version_number = 1
    /\ calls = 2
    /\ meta = <<>>
    /\ \E f \in Orphans : ParseVersionNumber(f[1]) = 1

\* ------------------------------------------------------- C28
\* What the read operations return for the directory m, for every order in
\* which the directory can be scanned.
Visible(m) ==
    [latest |-> {get_latest_baseline(m, glob) : glob \in GlobOrders(m)},
     next |-> {get_next_version_number(m, glob) : glob \in GlobOrders(m)},
     listed |-> {list_baseline_versions(m, glob) : glob \in GlobOrders(m)}]

\* The step is one of p's create, other than its successful return.
CreateStepWithoutSuccess(p) ==
    /\ frame[p].pc \in {"idle", "numbered", "copied", "opened"}
    /\ frame'[p] # frame[p]
    /\ ret'.op \in {"none", "create"}
    /\ ~(ret'.op = "create" /\ ret'.ok)

\* C28: a create that fails at the copy or at the write of the metadata
\* returns (False, error_msg, {}) and leaves the results of
\* list_baseline_versions, get_latest_baseline and get_next_version_number
\* as they were before the call: no step of a create other than its
\* successful return changes them.
C28_FailedCreateLeavesNoTrace ==
    [][/\ (frame[Caller].pc \in {"numbered", "copied", "opened"} /\ ret'.op = "create"
           /\ ~ret'.ok)
            => ret' = CreateFailed
       /\ CreateStepWithoutSuccess(Caller) => Visible(meta') = Visible(meta)]_vars

\* The create of c.json, whose metadata json.dump rejects, has failed after
\* version 1 was created: the metadata file of version 2 is there without
\* valid content, and version 2 is the next number again.
C28_Witness ==
    /\ ret = CreateFailed
    /\ \E v \in DOMAIN meta :
        /\ ParseVersionNumber(v) = 2
        /\ meta[v] = None
        /\ <<v, ".json">> \in DOMAIN data
    /\ \A glob \in GlobOrders(meta) : get_next_version_number(meta, glob) = 2

\* ------------------------------------------- upload_data
\* create_baseline_version run from its first line to its return, with no
\* other call in between and no I/O fault: the result and the directories
\* it leaves.
create_baseline_version(m, d, source_file_path, metadata, today, now) ==
    LET version_number == get_next_version_number(m, AnyOrder(DOMAIN m))
        version_id == FormatVersionId(version_number, today)
        baseline_filename == <<version_id, source_file_path.suffix>>
        baseline_info == BaselineInfo([metadata |-> metadata,
                                       version_id |-> version_id,
                                       version_number |-> version_number,
                                       source_file_path |-> source_file_path,
                                       baseline_filename |-> baseline_filename], now)
        copied == WriteFile(d, baseline_filename, source_file_path.name)
    IN IF JsonSerializable(metadata)
       THEN [meta |-> WriteFile(m, version_id, Some(StoredInfo(baseline_info))), data |-> copied,
             ok |-> TRUE,
             baseline_info |-> Some(baseline_info)]
       ELSE [meta |-> WriteFile(m, version_id, None), data |-> copied,
             ok |-> FALSE,
             baseline_info |-> None]

\* The files clients upload: those of Uploads and one with too few rows.
UploadRequests ==
    Uploads \cup {[file |-> [name |-> "d.csv", suffix |-> ".csv"],
                   metadata |-> Metadata(5, <<StrLabel("a"), StrLabel("b")>>, "int64")]}

\* The frame read_file returns for an upload, as validate_dataframe sees it
\* (no null cells).
FrameOf(metadata) ==
    [rows |-> metadata.rows,
     columns |-> [c \in DOMAIN metadata.dtypes |->
                    [dtype |-> metadata.dtypes[c], nulls |-> 0]]]

\* Variant of ShouldCompare that leaves out the test of the latest baseline.
ShouldCompareAlways(latest_baseline, is_baseline) == ~is_baseline

\* upload_data, line 129: if is_baseline or latest_baseline is None
ShouldCreate(latest_baseline, is_baseline) == is_baseline \/ latest_baseline = None

\* upload_data, line 141: if latest_baseline and not is_baseline
ShouldCompare(latest_baseline, is_baseline) == latest_baseline # None /\ ~is_baseline

\* The ret of a request that ends with an HTTPException.
Rejected(u, is_baseline, latest_baseline, status_code) ==
    [op |-> "upload_data", create |-> None, comparison |-> None,
     status_code |-> status_code, latest_baseline |-> latest_baseline,
     is_baseline |-> is_baseline, upload |-> u]

\* upload_data, steps 6 to 12, for a file that was read: the latest
\* baseline is fetched once, the frame is validated (against it unless
\* is_baseline), a baseline is created and the metadata compared as the two
\* tests say, and the response is built.  create is None or Some(result of
\* create_baseline_version); comparison is the response's
\* comparison_with_baseline.
UploadData(u, is_baseline, today, now) ==
    /\ frame[Caller].pc = "idle"
    /\ calls < MaxUploadCalls
    /\ calls' = calls + 1
    /\ \E glob \in GlobOrders(meta) :
        LET latest_baseline == get_latest_baseline(meta, glob)
            against == latest_baseline # None /\ ~is_baseline
            report == IF against
                      THEN validate_dataframe(FrameOf(u.metadata),
                                Some(latest_baseline[1].source_metadata.column_names),
                                Some(latest_baseline[1].source_metadata.dtypes))
                      ELSE validate_dataframe(FrameOf(u.metadata), None, None)
            created == create_baseline_version(meta, data, u.file, u.metadata, today, now)
            create == IF ShouldCreate(latest_baseline, is_baseline)
                      THEN Some(created) ELSE None
            meta_after == IF create = None THEN meta ELSE created.meta
            comparison ==
                IF ShouldCompare(latest_baseline, is_baseline)
                THEN Some(compare_with_baseline(meta_after, AnyOrder(DOMAIN meta_after),
                            u.metadata,
                            IF latest_baseline = None THEN None
                            ELSE Some(latest_baseline[1].version_id)))
                ELSE None
        IN IF report.raised # None
           THEN /\ ret' = Rejected(u, is_baseline, latest_baseline, 500)
                /\ UNCHANGED <<meta, data, last_assigned, passed>>
           ELSE IF ~report.is_valid
           THEN /\ ret' = Rejected(u, is_baseline, latest_baseline, 400)
                /\ UNCHANGED <<meta, data, last_assigned, passed>>
           ELSE /\ ret' = [op |-> "upload_data", create |-> IF create = None THEN None
                                      ELSE Some([ok |-> created.ok,
                                                 baseline_info |-> created.baseline_info]), comparison |-> comparison,
                           status_code |-> 200,
                           latest_baseline |-> latest_baseline,
                           is_baseline |-> is_baseline,
                           upload |-> u]
                /\ meta' = meta_after
                /\ data' = IF create = None THEN data ELSE created.data
                /\ last_assigned' = IF create # None /\ created.ok
                                    THEN created.baseline_info[1].version_number
                                    ELSE last_assigned
                /\ passed' = IF create # None /\ created.ok
                             THEN WriteFile(passed, created.baseline_info[1].version_id,
                                            u.metadata)
                             ELSE passed
    /\ UNCHANGED <<frame, deleted>>

\* Upload requests served one at a time, and deletes of stored baselines.
UploadNext ==
    /\ \/ \E u \in UploadRequests, is_baseline \in BOOLEAN, t \in Times, now \in Times :
               UploadData(u, is_baseline, DateStr(t), now)
       \/ Delete(Caller, FALSE, MaxUploadCalls)
    /\ UNCHANGED quality

UploadSpec == Init /\ [][UploadNext]_vars

\* The step is an upload that was answered with status 200.
Uploaded == ret'.op = "upload_data" /\ ret'.status_code = 200

\* The step stored a baseline that was not there.
NewBaseline == ReadableInfos(meta') \ ReadableInfos(meta) # {}

\* The comparison of the response was made with the baseline b.
ComparedWith(b) ==
    /\ ret'.comparison # None
    /\ ret'.comparison[1].has_baseline
    /\ ret'.comparison[1].baseline_version = b.version_id
    /\ ret'.comparison[1].differences
            = Differences(ret'.upload.metadata, b.source_metadata)

UploadCompared ==
    /\ ret.op = "upload_data" /\ ret.status_code = 200
    /\ ~ret.is_baseline
    /\ ret.create = None
    /\ ret.comparison # None /\ ret.comparison[1].has_baseline
    /\ ret.comparison[1].differences # <<>>

====
